---- MODULE Spec2Model ----
(***************************************************************************)
(* A model of the poker-helper decision engine: the card model, the        *)
(* built-in 5-card hand evaluator and best-of-7 selection, the Monte Carlo *)
(* hand-strength estimator with its worker pool, the decayed proportional  *)
(* ICM equity and pressure, and the action recommendation table.           *)
(*                                                                         *)
(* Floating point numbers of the program are modelled as exact rationals:  *)
(* an equity or a pressure is a pair <<numerator, denominator>> in lowest  *)
(* terms, a hand strength handed to the recommendation is a number of      *)
(* hundredths, an ICM pressure handed to it a number of tenths.  The       *)
(* external evaluator (treys) is not part of the repository; the model is  *)
(* the build where TREYS_AVAILABLE is False.                               *)
(***************************************************************************)
EXTENDS Integers, Sequences, FiniteSets, TLC

VARIABLES
    cards,                  \* evaluator: the list handed to _best_hand_value
    best_value,             \* evaluator: its return value (None before the call)
    hand_strength,          \* recommendation: argument, in hundredths
    position,               \* recommendation: argument
    big_blinds,             \* recommendation: argument (None when not supplied)
    tournament_stage,       \* recommendation: argument
    icm_pressure,           \* recommendation: argument, in tenths (None when not supplied)
    action,                 \* recommendation: the returned string ("" before the call)
    stack_sizes,            \* ICM: argument
    payouts,                \* ICM: argument
    player_index,           \* ICM: argument of calculate_icm_pressure (1-based here)
    equities,               \* ICM: list returned by calculate_icm (<<>> before the call)
    pressure,               \* ICM: value returned by calculate_icm_pressure (<<>> before)
    hole_cards,             \* hand strength: argument
    num_players,            \* hand strength: argument
    known_community_cards,  \* hand strength: argument (<<>> for None or an empty list)
    opponent_range,         \* hand strength: the hands of the HandRange ({} for None)
    num_cores,              \* hand strength: self.num_cores
    pc,                     \* hand strength: where calculate_hand_strength stands
    available_deck,         \* hand strength: the caller's list of unused cards
    num_simulations,        \* hand strength: the caller's num_simulations
    batches,                \* hand strength: the running _run_simulation_batch calls
    result,                 \* hand strength: the returned value (<<>> before the return)
    data,                   \* /calculate route: request.json
    status,                 \* /calculate route: status code of the response (None before)
    strength_calls,         \* /calculate route: arguments of its calculate_hand_strength calls
    range_str,              \* hand range: the text handed to parse_range
    self_hands,             \* hand range: self.hands
    range_pc,               \* hand range: "call", then "returned" or "raised" (ValueError)
    parse_arg,              \* parse_card: the argument card_str
    parsed_card,            \* parse_card: the returned Card (NoCard for None)
    parse_pc,               \* parse_card: "call", then "returned"
    icm_module,             \* ICM variants: the module whose ICMCalculator is called
    positions,              \* push/fold: argument (stack_sizes and payouts are the others)
    blinds,                 \* push/fold: argument <<small_blind, big_blind>>
    adjusted_thresholds,    \* push/fold: the returned dictionary (<<>> before the return)
    widgets,                \* Streamlit hand analyzer: the values of the input widgets
    st_errors,              \* Streamlit hand analyzer: the messages given to st.error
    st_calls,               \* Streamlit hand analyzer: arguments of its calculate_hand_strength calls
    icm_cache,              \* memoization: the entries of the lru_cache, least recently used first
    cache_pc                \* memoization: "returned" after a call, "changed" after a caller's write

evalVars == <<cards, best_value>>
recVars == <<hand_strength, position, big_blinds, tournament_stage, icm_pressure, action>>
icmVars == <<stack_sizes, payouts, player_index, equities, pressure>>
simVars == <<hole_cards, num_players, known_community_cards, opponent_range, num_cores,
             pc, available_deck, num_simulations, batches, result>>
routeVars == <<data, status, strength_calls>>
rangeVars == <<range_str, self_hands, range_pc>>
cardVars == <<parse_arg, parsed_card, parse_pc>>
variantVars == <<icm_module>>
nashVars == <<positions, blinds, adjusted_thresholds>>
streamlitVars == <<widgets, st_errors, st_calls>>
cacheVars == <<icm_cache, cache_pc>>
lateVars == <<streamlitVars, cacheVars>>
otherVars == <<routeVars, rangeVars, cardVars, variantVars, nashVars, lateVars>>
engineVars == <<evalVars, recVars, icmVars, simVars>>
vars == <<engineVars, otherVars>>

\* Python's None, for a result that has not been produced: no score is negative
None == 0 - 1

(***************************************************************************)
(* Card model (poker_engine.py, module constants and class Card)           *)
(***************************************************************************)
SUITS == <<"h", "d", "c", "s">>
RANKS == <<"2", "3", "4", "5", "6", "7", "8", "9", "T", "J", "Q", "K", "A">>

RankSet == {RANKS[i] : i \in 1..Len(RANKS)}
SuitSet == {SUITS[i] : i \in 1..Len(SUITS)}

\* RANK_VALUES = {rank: idx for idx, rank in enumerate(RANKS)}
RANK_VALUES ==
    ("2" :> 0) @@ ("3" :> 1) @@ ("4" :> 2) @@ ("5" :> 3) @@ ("6" :> 4) @@ ("7" :> 5) @@ ("8" :> 6)
    @@ ("9" :> 7) @@ ("T" :> 8) @@ ("J" :> 9) @@ ("Q" :> 10) @@ ("K" :> 11) @@ ("A" :> 12)

\* Card.__init__: rank, suit and the precomputed value
Card(rank, suit) == [rank |-> rank, suit |-> suit, value |-> RANK_VALUES[rank]]

\* PokerEngine.__init__: self.deck, rank-major, suits in SUITS order
RECURSIVE DeckFrom(_)
DeckFrom(i) ==
    IF i > Len(RANKS) * Len(SUITS) THEN <<>>
    ELSE <<Card(RANKS[((i - 1) \div Len(SUITS)) + 1], SUITS[((i - 1) % Len(SUITS)) + 1])>>
         \o DeckFrom(i + 1)
deck == DeckFrom(1)

(***************************************************************************)
(* Small helpers standing for Python built-ins                             *)
(***************************************************************************)
SetMax(S) == CHOOSE m \in S : \A y \in S : y <= m
SetMin(S) == CHOOSE m \in S : \A y \in S : m <= y
Max(a, b) == IF a >= b THEN a ELSE b
Min(a, b) == IF a <= b THEN a ELSE b

RECURSIVE SumSeq(_)
SumSeq(s) == IF s = <<>> THEN 0 ELSE Head(s) + SumSeq(Tail(s))

\* itertools.combinations(range(1, n + 1), k): the increasing k-tuples of
\* positions, in the lexicographic order in which itertools yields them
RECURSIVE Combinations(_, _, _)
Combinations(lo, n, k) ==
    IF k = 0 THEN << <<>> >>
    ELSE IF n - lo + 1 < k THEN <<>>
    ELSE LET with == Combinations(lo + 1, n, k - 1)
         IN  [i \in 1..Len(with) |-> <<lo>> \o with[i]] \o Combinations(lo + 1, n, k)

(***************************************************************************)
(* Hand evaluator (PokerEngine._evaluate_hand, _best_hand_value)           *)
(***************************************************************************)
HIGH_CARD == 0
PAIR == 1000
TWO_PAIR == 2000
TRIPS == 3000
STRAIGHT == 4000
FLUSH == 5000
FULL_HOUSE == 6000
QUADS == 7000
STRAIGHT_FLUSH == 8000
\* a weight under which the higher pair alone leaves the band
TWO_PAIR_WEIGHT_wide == 10 * 10
TWO_PAIR_WEIGHT == 20

\* the wheel counted with its Ace high
WheelHigh_ace == Len(RANKS) - 1

\* max([-1, 0, 1, 2, 3]): the top of the wheel, its Ace counted low
WheelHigh == 3

_evaluate_hand(hand) ==
    LET idx == DOMAIN hand
        suits == {hand[i].suit : i \in idx}
        rank_values == [i \in idx |-> hand[i].value]
        values == {rank_values[i] : i \in idx}
        is_flush == Cardinality(suits) = 1
        min_val == SetMin(values)
        max_val == SetMax(values)
        plain_straight == (max_val - min_val = 4) /\ (Cardinality(values) = 5)
        wheel == ~plain_straight /\ Len(hand) = 5 /\ values = {0, 1, 2, 3, 12}
        is_straight == plain_straight \/ wheel
        \* sorted_values is replaced by [-1, 0, 1, 2, 3] for the wheel
        sorted_max == IF wheel THEN WheelHigh ELSE max_val
        sorted_sum == IF wheel THEN 5 ELSE SumSeq(rank_values)
        rank_counts == [r \in values |-> Cardinality({i \in idx : rank_values[i] = r})]
        top == SetMax({rank_counts[r] : r \in values})
        top_rank == CHOOSE r \in values : rank_counts[r] = top
        \* counts[1]: the second entry of the counts sorted in decreasing order
        second == IF Cardinality({r \in values : rank_counts[r] = top}) > 1 THEN top
                  ELSE SetMax({rank_counts[r] : r \in values \ {top_rank}})
        WithCount(c) == {r \in values : rank_counts[r] = c}
    IN  IF is_straight /\ is_flush THEN STRAIGHT_FLUSH + sorted_max
        ELSE IF top = 4 THEN QUADS + SetMax(WithCount(4))
        ELSE IF top = 3 /\ second = 2 THEN FULL_HOUSE + SetMax(WithCount(3))
        ELSE IF is_flush THEN FLUSH + sorted_sum
        ELSE IF is_straight THEN STRAIGHT + sorted_max
        ELSE IF top = 3 THEN TRIPS + SetMax(WithCount(3))
        ELSE IF top = 2 /\ second = 2
            THEN TWO_PAIR + SetMax(WithCount(2)) * TWO_PAIR_WEIGHT + SetMin(WithCount(2))
        ELSE IF top = 2 THEN PAIR + SetMax(WithCount(2))
        ELSE max_val

\* itertools.combinations(cards, 5) for a list of n cards, as positions
CombinationsOf6 == Combinations(1, 6, 5)
CombinationsOf7 == Combinations(1, 7, 5)
HandCombinations(n) == IF n = 6 THEN CombinationsOf6
                       ELSE IF n = 7 THEN CombinationsOf7
                       ELSE Combinations(1, n, 5)

\* the loop of _best_hand_value from combination number i on
RECURSIVE BestOver(_, _, _, _)
BestOver(cs, combos, i, best_so_far) ==
    IF i > Len(combos) THEN best_so_far
    ELSE LET c == combos[i]
             value == _evaluate_hand([j \in 1..5 |-> cs[c[j]]])
         IN  BestOver(cs, combos, i + 1, IF value > best_so_far THEN value ELSE best_so_far)

\* the loop started one combination late
_best_hand_value_skip_first(cs) ==
    IF Len(cs) > 5 THEN BestOver(cs, HandCombinations(Len(cs)), 2, 0)
    ELSE _evaluate_hand(cs)

_best_hand_value(cs) ==
    IF Len(cs) > 5 THEN BestOver(cs, HandCombinations(Len(cs)), 1, 0)
    ELSE _evaluate_hand(cs)

(***************************************************************************)
(* Evaluator specification: hands are dealt in non-decreasing rank order;  *)
(* the suit of the first card fixes how suits follow the ranks, so that    *)
(* flushes (shift 0) and mixed suits (shift 1) both occur.  Every multiset *)
(* of ranks of five cards is reached; a sixth and a seventh card are dealt *)
(* to the hands whose consecutive ranks are at most MaxRankGap apart.      *)
(***************************************************************************)
MaxSuitShift == 1
MaxRankGap == 2
\* two hole cards and five community cards
MaxCards == 2 + 5

SuitIndex(c) == CHOOSE i \in 1..Len(SUITS) : SUITS[i] = c.suit

\* the card of rank value v dealt after the cards cs
NextCardOf(cs, v) ==
    LET f == SuitIndex(cs[1]) - 1
        copies == Cardinality({i \in DOMAIN cs : cs[i].value = v})
    IN  Card(RANKS[v + 1], SUITS[((f + copies + f * (v - cs[1].value)) % Len(SUITS)) + 1])

\* consecutive cards of cs, and then a card of value v, at most MaxRankGap apart
Dense(cs, v) ==
    /\ \A i \in 1..(Len(cs) - 1) : cs[i + 1].value - cs[i].value <= MaxRankGap
    /\ v - cs[Len(cs)].value <= MaxRankGap

IdleEval ==
    /\ cards = <<>>
    /\ best_value = None

IdleRec ==
    /\ hand_strength = 0
    /\ position = ""
    /\ big_blinds = None
    /\ tournament_stage = ""
    /\ icm_pressure = None
    /\ action = ""

IdleICM ==
    /\ stack_sizes = <<>>
    /\ payouts = <<>>
    /\ player_index = 0
    /\ equities = <<>>
    /\ pressure = <<>>

IdleSim ==
    /\ hole_cards = <<>>
    /\ num_players = 0
    /\ known_community_cards = <<>>
    /\ opponent_range = {}
    /\ num_cores = 0
    /\ pc = ""
    /\ available_deck = <<>>
    /\ num_simulations = 0
    /\ batches = <<>>
    /\ result = <<>>

IdleRoute ==
    /\ data = <<>>
    /\ status = None
    /\ strength_calls = <<>>

IdleRange ==
    /\ range_str = <<>>
    /\ self_hands = {}
    /\ range_pc = ""

IdleCard ==
    /\ parse_arg = <<>>
    /\ parsed_card = <<>>
    /\ parse_pc = ""

IdleVariant == icm_module = ""

IdleNash ==
    /\ positions = <<>>
    /\ blinds = <<>>
    /\ adjusted_thresholds = <<>>

IdleStreamlit ==
    /\ widgets = <<>>
    /\ st_errors = <<>>
    /\ st_calls = <<>>

IdleCache ==
    /\ icm_cache = <<>>
    /\ cache_pc = ""

IdleLate == IdleStreamlit /\ IdleCache

IdleOther == IdleRoute /\ IdleRange /\ IdleCard /\ IdleVariant /\ IdleNash /\ IdleLate

InitEval == IdleEval /\ IdleRec /\ IdleICM /\ IdleSim /\ IdleOther

DealFirst ==
    /\ cards = <<>>
    /\ \E v \in 0..(Len(RANKS) - 1), f \in 0..MaxSuitShift :
          cards' = <<Card(RANKS[v + 1], SUITS[f + 1])>>
    /\ UNCHANGED <<best_value, recVars, icmVars, simVars, otherVars>>

DealNext ==
    /\ cards # <<>>
    /\ best_value = None
    /\ Len(cards) < MaxCards
    /\ \E v \in cards[Len(cards)].value..(Len(RANKS) - 1) :
          /\ Len(cards) >= 5 => Dense(cards, v)
          /\ Cardinality({i \in DOMAIN cards : cards[i].value = v}) < Len(SUITS)
          /\ cards' = Append(cards, NextCardOf(cards, v))
    /\ UNCHANGED <<best_value, recVars, icmVars, simVars, otherVars>>

BestHandValue ==
    /\ best_value = None
    /\ Len(cards) >= 5
    /\ best_value' = _best_hand_value(cards)
    /\ UNCHANGED <<cards, recVars, icmVars, simVars, otherVars>>

NextEval == DealFirst \/ DealNext \/ BestHandValue

SpecEval == InitEval /\ [][NextEval]_vars

(***************************************************************************)
(* Properties of the evaluator                                             *)
(***************************************************************************)
\* the categories of poker, defined from the rules and not from the scoring
Multiplicity(cs, v) == Cardinality({i \in DOMAIN cs : cs[i].value = v})
RanksWith(cs, n) == {v \in 0..(Len(RANKS) - 1) : Multiplicity(cs, v) = n}
AllSameSuit(cs) == \A i, j \in DOMAIN cs : cs[i].suit = cs[j].suit
FiveInARow(cs) ==
    LET vs == {cs[i].value : i \in DOMAIN cs}
    IN  \/ \E lo \in 0..(Len(RANKS) - 5) : vs = lo..(lo + 4)
        \/ vs = {0, 1, 2, 3, Len(RANKS) - 1}
TrueCategory(cs) ==
    IF FiveInARow(cs) /\ AllSameSuit(cs) THEN 8
    ELSE IF RanksWith(cs, 4) # {} THEN 7
    ELSE IF RanksWith(cs, 3) # {} /\ RanksWith(cs, 2) # {} THEN 6
    ELSE IF AllSameSuit(cs) THEN 5
    ELSE IF FiveInARow(cs) THEN 4
    ELSE IF RanksWith(cs, 3) # {} THEN 3
    ELSE IF Cardinality(RanksWith(cs, 2)) = 2 THEN 2
    ELSE IF Cardinality(RanksWith(cs, 2)) = 1 THEN 1
    ELSE 0
BandFloor(category) ==
    <<HIGH_CARD, PAIR, TWO_PAIR, TRIPS, STRAIGHT, FLUSH, FULL_HOUSE, QUADS,
      STRAIGHT_FLUSH, STRAIGHT_FLUSH + (PAIR - HIGH_CARD)>>[category + 1]

\* C3: the score of every 5-card hand lies in the band of the hand's true
\* category, at or above its floor and strictly below the next band's floor
\* (so a hand of a higher category always scores strictly higher).
C3_ScoreInCategoryBand ==
    (Len(cards) = 5 /\ best_value # None) =>
        /\ BandFloor(TrueCategory(cards)) <= best_value
        /\ best_value < BandFloor(TrueCategory(cards) + 1)

\* a scored hand with the largest tiebreak of its band: two pair, aces and kings
C3_Witness ==
    /\ Len(cards) = 5
    /\ TrueCategory(cards) = 2
    /\ best_value = TWO_PAIR + 12 * TWO_PAIR_WEIGHT + 11

\* the five cards left when positions a < b are taken out of a list of six
\* (b = 7, beyond the list) or seven cards
Dropped(cs) == {ab \in (1..Len(cs)) \X (2..MaxCards) :
                    ab[1] < ab[2] /\ (Len(cs) = 6 => ab[2] = MaxCards)}
SubHand(cs, ab) ==
    [i \in 1..5 |-> LET j == IF i < ab[1] THEN i ELSE i + 1
                    IN  cs[IF j < ab[2] THEN j ELSE j + 1]]

\* C4: on 6 or 7 cards _best_hand_value returns the maximum of _evaluate_hand
\* over all 5-card subsets (at least every subset's score, and the score of
\* one of them); on exactly 5 cards it returns the score of that hand.
C4_BestIsMaxOverSubsets ==
    best_value # None =>
        IF Len(cards) = 5 THEN best_value = _evaluate_hand(cards)
        ELSE /\ \A ab \in Dropped(cards) : _evaluate_hand(SubHand(cards, ab)) <= best_value
             /\ \E ab \in Dropped(cards) : _evaluate_hand(SubHand(cards, ab)) = best_value

\* a 7-card list whose best hand is not made of the last five cards alone
C4_Witness ==
    /\ Len(cards) = 7
    /\ best_value # None
    /\ best_value > _evaluate_hand(SubSeq(cards, 3, 7))
    /\ best_value > _evaluate_hand(SubSeq(cards, 1, 5))

\* the hand of the ranks lo .. lo + 4 in the suits of cs
RunFrom(cs, lo) == [i \in 1..5 |-> Card(RANKS[lo + i], cs[i].suit)]

\* C15: the wheel (5-4-3-2-A) in mixed suits scores as a straight, at or above
\* 4000 and below 5000, and strictly below every other straight, the
\* 2-3-4-5-6 included; the wheel in one suit scores as a straight flush and
\* strictly below every other straight flush.
C15_WheelIsLowestStraight ==
    (Len(cards) = 5 /\ best_value # None
        /\ {cards[i].value : i \in DOMAIN cards} = {0, 1, 2, 3, Len(RANKS) - 1}) =>
        /\ ~AllSameSuit(cards) => (STRAIGHT <= best_value /\ best_value < FLUSH)
        /\ AllSameSuit(cards) => STRAIGHT_FLUSH <= best_value
        /\ \A lo \in 0..(Len(RANKS) - 5) : best_value < _evaluate_hand(RunFrom(cards, lo))

\* a scored wheel in mixed suits
C15_Witness ==
    /\ Len(cards) = 5
    /\ {cards[i].value : i \in DOMAIN cards} = {0, 1, 2, 3, Len(RANKS) - 1}
    /\ ~AllSameSuit(cards)
    /\ best_value = STRAIGHT + 3

\* a scored wheel in one suit
C15_WitnessSuited ==
    /\ Len(cards) = 5
    /\ {cards[i].value : i \in DOMAIN cards} = {0, 1, 2, 3, Len(RANKS) - 1}
    /\ AllSameSuit(cards)
    /\ best_value = STRAIGHT_FLUSH + 3

\* the rank values that occur once in the hand: its kickers, or all its cards
\* when no rank is paired
Singles(cs) == RanksWith(cs, 1)

\* the poker order of two sets of distinct ranks of the same size: the
\* highest cards decide, then the next differing ones
RECURSIVE RankedBelow(_, _)
RankedBelow(A, B) ==
    IF A = {} \/ B = {} THEN FALSE
    ELSE LET a == SetMax(A)
             b == SetMax(B)
         IN  a < b \/ (a = b /\ RankedBelow(A \ {a}, B \ {b}))

\* the hand cs with its singles replaced by the ranks of T, lowest for
\* lowest, each card keeping its suit
WithSingles(cs, T) ==
    [i \in DOMAIN cs |->
        IF cs[i].value \in Singles(cs)
            THEN LET k == Cardinality({y \in Singles(cs) : y < cs[i].value})
                     v == CHOOSE x \in T : Cardinality({y \in T : y < x}) = k
                 IN  Card(RANKS[v + 1], cs[i].suit)
        ELSE cs[i]]

\* the sets of ranks that can replace the singles of cs
OtherSingles(cs) ==
    {T \in SUBSET ((0..(Len(RANKS) - 1)) \ (RanksWith(cs, 2) \cup RanksWith(cs, 3))) :
        Cardinality(T) = Cardinality(Singles(cs))}

\* C29: within a category the score agrees with the poker ranking: a flush
\* with lower cards, a hand with the same pair and lower kickers, and a
\* high-card hand with the same top card and lower kickers never score
\* higher than the hand evaluated.
C29_ScoreAgreesWithRanking ==
    (best_value # None /\ Len(cards) = 5 /\ TrueCategory(cards) \in {0, 1, 5}) =>
        \A T \in OtherSingles(cards) :
            LET other == WithSingles(cards, T)
            IN  (/\ TrueCategory(other) = TrueCategory(cards)
                 /\ TrueCategory(cards) = 0 => SetMax(T) = SetMax(Singles(cards))
                 /\ RankedBelow(T, Singles(cards)))
                    => _evaluate_hand(other) <= best_value

(***************************************************************************)
(* Action recommendation (PokerEngine.get_action_recommendation)           *)
(*                                                                         *)
(* hand_strength and the thresholds are in hundredths; icm_factor is in    *)
(* twentieths (1.0 is 20), which holds 1.0 + icm_pressure * 0.5 exactly    *)
(* for a pressure in tenths.                                               *)
(***************************************************************************)
\* icm_factor with the factor of the early stage in every stage but the final
icm_factor_early_everywhere(stage, p) ==
    IF stage = "bubble" \/ p # None
        THEN (IF p # None THEN 20 + p ELSE 24)
    ELSE IF stage = "final" THEN 18
    ELSE 22

\* icm_factor, lines 471-483
icm_factor(stage, p) ==
    IF stage = "bubble" \/ p # None
        THEN (IF p # None THEN 20 + p ELSE 24)
    ELSE IF stage = "early" THEN 22
    ELSE IF stage = "final" THEN 18
    ELSE 20

\* the <<threshold, factor>> pairs whose quotient in double precision lies
\* below the exact quotient although the exact quotient is a number of
\* hundredths: 0.22 / 1.1, 0.35 / 1.25, 0.7 / 1.25, 0.3 / 1.5, 0.6 / 1.5
QuotientRoundedDown == {<<22, 22>>, <<35, 25>>, <<70, 25>>, <<30, 30>>, <<60, 30>>}

\* hand_strength > t / icm_factor
Exceeds(hs, t, f) ==
    \/ hs * f > t * 20
    \/ hs * f = t * 20 /\ <<t, f>> \in QuotientRoundedDown

\* the stack limits of the branches, in big blinds
ShortStackLimit_low == 2 + 7
ShortStackLimit == 10
MediumStackLimit == 20
PremiumStackLimit_low == 2 * 7
PremiumStackLimit == 15

get_action_recommendation(hs, pos, bb, stage, p) ==
    LET is_monte_carlo == hs < 70
        f == icm_factor(stage, p)
        \* hand_strength > t / icm_factor or (is_monte_carlo and hand_strength > m / icm_factor)
        Over(t, m) == Exceeds(hs, t, f) \/ (is_monte_carlo /\ Exceeds(hs, m, f))
        Table(raise_t, raise_m, call_t, call_m) ==
            IF Over(raise_t, raise_m) THEN "Raise"
            ELSE IF Over(call_t, call_m) THEN "Call"
            ELSE "Fold"
    IN  IF hs > 75
            THEN (IF bb # None /\ bb <= PremiumStackLimit THEN "All-In" ELSE "Raise")
        ELSE IF bb = None
            THEN (IF pos = "early" THEN Table(70, 35, 50, 28)
                  ELSE IF pos = "middle" THEN Table(65, 32, 45, 25)
                  ELSE Table(60, 30, 40, 22))
        ELSE IF bb <= ShortStackLimit
            THEN (IF Over(50, 30) THEN "All-In"
                  ELSE IF Over(45, 25) /\ pos = "late" THEN "All-In"
                  ELSE "Fold")
        ELSE IF bb <= MediumStackLimit
            THEN (IF Over(65, 32) THEN "Raise"
                  ELSE IF Over(50, 28) /\ pos # "early" THEN "Call"
                  ELSE IF Over(40, 24) /\ pos = "late" THEN "Call"
                  ELSE "Fold")
        ELSE (IF pos = "early" THEN Table(70, 35, 55, 30)
              ELSE IF pos = "middle" THEN Table(65, 32, 50, 27)
              ELSE Table(60, 30, 45, 23))

(***************************************************************************)
(* Recommendation specification: one call on every combination of a hand   *)
(* strength in hundredths, a position, a stack (or none), a stage and a    *)
(* pressure in tenths (or none).                                           *)
(***************************************************************************)
MaxBigBlinds == 22
HandStrengths == 0..100
Positions == {"early", "middle", "late"}
Stages == {"early", "middle", "bubble", "final"}
BigBlindChoices == {None} \cup 1..MaxBigBlinds
PressureChoices == {None} \cup 0..10

InitRec ==
    /\ hand_strength \in HandStrengths
    /\ position \in Positions
    /\ big_blinds \in BigBlindChoices
    /\ tournament_stage \in Stages
    /\ icm_pressure \in PressureChoices
    /\ action = ""
    /\ IdleEval /\ IdleICM /\ IdleSim /\ IdleOther

Recommend ==
    /\ action = ""
    /\ action' = get_action_recommendation(hand_strength, position, big_blinds,
                                           tournament_stage, icm_pressure)
    /\ UNCHANGED <<hand_strength, position, big_blinds, tournament_stage, icm_pressure>>
    /\ UNCHANGED <<evalVars, icmVars, simVars, otherVars>>

NextRec == Recommend

SpecRec == InitRec /\ [][NextRec]_vars

(***************************************************************************)
(* Properties of the recommendation                                        *)
(***************************************************************************)
Aggression(a) ==
    CASE a = "Fold" -> 0 [] a = "Call" -> 1 [] a = "Raise" -> 2 [] a = "All-In" -> 3

\* the recommendation for the same equity, position and stack in the middle
\* stage with no pressure
MiddleStageAction ==
    get_action_recommendation(hand_strength, position, big_blinds, "middle", None)

\* C8: for fixed equity, position and stack, the recommendation on the bubble
\* or under a supplied ICM pressure is never more aggressive than in the middle
\* stage without pressure, and the one of the final stage never less aggressive.
C8_StageAndPressureOrdering ==
    action # "" =>
        /\ (tournament_stage = "bubble" \/ icm_pressure # None)
              => Aggression(action) <= Aggression(MiddleStageAction)
        /\ (tournament_stage = "final" /\ icm_pressure = None)
              => Aggression(action) >= Aggression(MiddleStageAction)

\* C9: with a stack of at most 10 big blinds the recommendation is All-In or
\* Fold, whatever the equity, position, stage and pressure.
C9_ShortStackAllInOrFold ==
    (action # "" /\ big_blinds # None /\ big_blinds <= 10) => action \in {"All-In", "Fold"}

\* a stack of exactly 10 BB shoved with an equity of 0.31, far below the premium equity
C9_Witness ==
    /\ big_blinds = 10
    /\ hand_strength = 31
    /\ tournament_stage = "middle" /\ icm_pressure = None
    /\ action = "All-In"

\* C10: an equity above 0.75 gets All-In when a stack of at most 15 big blinds
\* is supplied and Raise otherwise, whatever the position, stage and pressure.
C10_PremiumShortCircuit ==
    (action # "" /\ hand_strength > 75) =>
        action = (IF big_blinds # None /\ big_blinds <= 15 THEN "All-In" ELSE "Raise")

\* a premium equity on exactly 15 big blinds, on the bubble under full pressure
C10_Witness ==
    /\ hand_strength > 75
    /\ big_blinds = 15
    /\ tournament_stage = "bubble" /\ icm_pressure = 10
    /\ action = "All-In"

\* C18: with a stack of at most 10 big blinds, the default (middle) stage and
\* no pressure, every equity strictly above 0.30, 0.5 included, gets All-In in
\* early, middle and late position; an equity of 0.30 gets Fold in early
\* position and All-In in late position.
C18_ShortStackShove ==
    (/\ action # ""
     /\ big_blinds # None /\ big_blinds <= 10
     /\ tournament_stage = "middle" /\ icm_pressure = None) =>
        /\ hand_strength > 30 => action = "All-In"
        /\ (hand_strength = 30 /\ position = "early") => action = "Fold"
        /\ (hand_strength = 30 /\ position = "late") => action = "All-In"

\* an equity of exactly 0.30 shoved from late position on 10 big blinds
C18_Witness ==
    /\ big_blinds = 10
    /\ hand_strength = 30
    /\ position = "late"
    /\ tournament_stage = "middle" /\ icm_pressure = None
    /\ action = "All-In"

\* an equity of 0.5 shoved from early position on 10 big blinds
C18_WitnessEarly ==
    /\ big_blinds = 10
    /\ hand_strength = 50
    /\ position = "early"
    /\ tournament_stage = "middle" /\ icm_pressure = None
    /\ action = "All-In"

\* C28: the recommendation is monotone in the equity: for a fixed position,
\* stack, tournament stage and ICM pressure no lower equity of the 0.01 grid
\* gets a more aggressive recommendation, in the order Fold < Call < Raise <
\* All-In.
C28_MonotoneInEquity ==
    action # "" =>
        \A lower \in 0..(hand_strength - 1) :
            Aggression(get_action_recommendation(lower, position, big_blinds,
                                                 tournament_stage, icm_pressure))
                <= Aggression(action)

(***************************************************************************)
(* Exact rationals <<numerator, denominator>>, denominator positive, in    *)
(* lowest terms: the values the program holds in floats                    *)
(***************************************************************************)
Abs(a) == IF a < 0 THEN 0 - a ELSE a

RECURSIVE GCD(_, _)
GCD(a, b) == IF b = 0 THEN a ELSE GCD(b, a % b)

Rat(n, d) ==
    LET g == GCD(Abs(n), d)
    IN  IF g = 0 THEN <<0, 1>> ELSE <<n \div g, d \div g>>
RatAdd(a, b) ==
    LET g == GCD(a[2], b[2])
    IN  Rat(a[1] * (b[2] \div g) + b[1] * (a[2] \div g), (a[2] \div g) * b[2])
RatSub(a, b) == RatAdd(a, <<0 - b[1], b[2]>>)
RatMul(a, b) ==
    LET g1 == GCD(Abs(a[1]), b[2])
        g2 == GCD(Abs(b[1]), a[2])
    IN  IF a[1] = 0 \/ b[1] = 0 THEN <<0, 1>>
        ELSE Rat((a[1] \div g1) * (b[1] \div g2), (a[2] \div g2) * (b[2] \div g1))
\* a / b for b # 0
RatDiv(a, b) == RatMul(a, IF b[1] > 0 THEN <<b[2], b[1]>> ELSE <<0 - b[2], 0 - b[1]>>)
RatLess(a, b) ==
    LET g == GCD(a[2], b[2])
    IN  a[1] * (b[2] \div g) < b[1] * (a[2] \div g)
RatLeq(a, b) == ~RatLess(b, a)

RECURSIVE RatSum(_)
RatSum(s) == IF s = <<>> THEN <<0, 1>> ELSE RatAdd(Head(s), RatSum(Tail(s)))

(***************************************************************************)
(* Decayed proportional ICM (icm.py calculate_simple_icm / calculate_icm   *)
(* and PokerEngine.calculate_icm, the same statements) and ICM pressure    *)
(***************************************************************************)
\* payouts + [0] * (n_players - len(payouts)) when the list is shorter
PaddedPayouts(pay, n_players) ==
    IF Len(pay) < n_players THEN pay \o [j \in 1..(n_players - Len(pay)) |-> 0] ELSE pay

\* the loop "for j in range(1, min(len(payouts), n_players))" from j on
RECURSIVE LowerPositions(_, _, _, _, _)
LowerPositions(share, pay, n_players, j, equity) ==
    IF j >= Min(Len(pay), n_players) THEN equity
    ELSE LET remaining == RatSub(<<1, 1>>, share)
             position_prob == RatMul(RatMul(remaining, share), Rat(n_players - j, n_players))
         IN  LowerPositions(share, pay, n_players, j + 1,
                            RatAdd(equity, RatMul(position_prob, <<pay[j + 1], 1>>)))

\* calculate_icm without the term of the first prize
calculate_icm_without_first_prize(stacks, pay) ==
    LET total_chips == SumSeq(stacks)
        n_players == Len(stacks)
        padded == PaddedPayouts(pay, n_players)
    IN  [i \in 1..n_players |->
            LowerPositions(Rat(stacks[i], total_chips), padded, n_players, 1, <<0, 1>>)]

calculate_icm(stacks, pay) ==
    LET total_chips == SumSeq(stacks)
        n_players == Len(stacks)
        padded == PaddedPayouts(pay, n_players)
    IN  [i \in 1..n_players |->
            LET share == Rat(stacks[i], total_chips)
            IN  LowerPositions(share, padded, n_players, 1, RatMul(share, <<padded[1], 1>>))]

\* min(a, b)
RatMin(a, b) == IF RatLess(b, a) THEN b ELSE a

calculate_icm_pressure(stacks, pay, i) ==
    LET current_equity == calculate_icm(stacks, pay)[i]
        half_stack == [stacks EXCEPT ![i] = Max(1, stacks[i] \div 2)]
        half_equity == calculate_icm(half_stack, pay)[i]
        double_stack == [stacks EXCEPT ![i] = stacks[i] * 2]
        double_equity == calculate_icm(double_stack, pay)[i]
        risk == RatSub(current_equity, half_equity)
        reward == RatSub(double_equity, current_equity)
    IN  IF reward[1] = 0 THEN <<1, 1>>
        ELSE RatMin(<<1, 1>>, RatDiv(risk, reward))

(***************************************************************************)
(* ICM specification: tables of 2..MaxPlayers players whose stacks are     *)
(* powers of two up to 2^MaxStackExp chips, MaxTotalChips chips at most on *)
(* the table, with a payout schedule of PayoutLists; calculate_icm and,    *)
(* for any seat, calculate_icm_pressure are called on them.                *)
(***************************************************************************)
MaxPlayers == 5
MaxStackExp == 4
MaxTotalChips == 24
StackValues == {2 ^ k : k \in 0..MaxStackExp}
PayoutLists == {<<100, 50, 25>>, <<50, 30, 20>>, <<5, 4, 4, 4, 4>>, <<1>>}

InitICM ==
    /\ \E n \in 2..MaxPlayers : stack_sizes \in [1..n -> StackValues]
    /\ SumSeq(stack_sizes) <= MaxTotalChips
    /\ payouts \in PayoutLists
    /\ player_index = 0
    /\ equities = <<>>
    /\ pressure = <<>>
    /\ IdleEval /\ IdleRec /\ IdleSim /\ IdleOther

CalculateICM ==
    /\ equities = <<>>
    /\ equities' = calculate_icm(stack_sizes, payouts)
    /\ UNCHANGED <<stack_sizes, payouts, player_index, pressure>>
    /\ UNCHANGED <<evalVars, recVars, simVars, otherVars>>

CalculateICMPressure ==
    /\ pressure = <<>>
    /\ \E i \in DOMAIN stack_sizes :
          /\ player_index' = i
          /\ pressure' = calculate_icm_pressure(stack_sizes, payouts, i)
    /\ UNCHANGED <<stack_sizes, payouts, equities>>
    /\ UNCHANGED <<evalVars, recVars, simVars, otherVars>>

NextICM == CalculateICM \/ CalculateICMPressure

SpecICM == InitICM /\ [][NextICM]_vars

(***************************************************************************)
(* Properties of ICM                                                       *)
(***************************************************************************)
\* C5: the equities returned by calculate_icm sum to the sum of the payouts
\* within 0.01 (175 for three equal stacks and payouts 100, 50, 25); stated
\* for the tables that have a player for every paid place.
C5_EquitiesSumToPayouts ==
    (equities # <<>> /\ Len(payouts) <= Len(stack_sizes)) =>
        LET diff == RatSub(RatSum(equities), <<SumSeq(payouts), 1>>)
        IN  RatLeq(<<Abs(diff[1]), diff[2]>>, <<1, 100>>)

\* C6: raising one player's stack by any amount up to its double, the other
\* stacks fixed, strictly raises that player's equity.
C6_EquityStrictlyIncreasing ==
    equities # <<>> =>
        \A i \in DOMAIN stack_sizes : \A bigger \in (stack_sizes[i] + 1)..(2 * stack_sizes[i]) :
            RatLess(equities[i],
                    calculate_icm([stack_sizes EXCEPT ![i] = bigger], payouts)[i])

\* C7: calculate_icm_pressure returns a value between 0 and 1.
C7_PressureInUnitInterval ==
    pressure # <<>> => RatLeq(<<0, 1>>, pressure) /\ RatLeq(pressure, <<1, 1>>)

(***************************************************************************)
(* Card texts and hand ranges (PokerEngine.parse_card, class HandRange).   *)
(* A text is the sequence of its characters: "Kh" is <<"K", "h">>.         *)
(***************************************************************************)
\* str.upper and str.lower on the letters that occur in the texts of the
\* model; every other character of these texts (a digit, a blank, a comma, a
\* plus sign) has no case and is left as it is
LowerCaseLetters == <<"a", "c", "d", "h", "j", "k", "o", "q", "s", "t", "x", "z">>
UpperCaseLetters == <<"A", "C", "D", "H", "J", "K", "O", "Q", "S", "T", "X", "Z">>
UPPER == [ch \in {LowerCaseLetters[i] : i \in DOMAIN LowerCaseLetters} |->
             UpperCaseLetters[CHOOSE i \in DOMAIN LowerCaseLetters : LowerCaseLetters[i] = ch]]
LOWER == [ch \in {UpperCaseLetters[i] : i \in DOMAIN UpperCaseLetters} |->
             LowerCaseLetters[CHOOSE i \in DOMAIN UpperCaseLetters : UpperCaseLetters[i] = ch]]
Upper(ch) == IF ch \in DOMAIN UPPER THEN UPPER[ch] ELSE ch
Lower(ch) == IF ch \in DOMAIN LOWER THEN LOWER[ch] ELSE ch

\* what card_lookup.get returns for a key that is not in the table
NoCard == [rank |-> "", suit |-> "", value |-> None]

\* parse_card looking up the second character as it was typed
parse_card_suit_as_typed(card_str) ==
    IF card_str = <<>> \/ Len(card_str) # 2 THEN NoCard
    ELSE LET card_key == <<Upper(card_str[1]), card_str[2]>>
         IN  IF card_key[1] \in RankSet /\ card_key[2] \in SuitSet
                 THEN Card(card_key[1], card_key[2])
             ELSE NoCard

\* PokerEngine.parse_card
parse_card(card_str) ==
    IF card_str = <<>> \/ Len(card_str) # 2 THEN NoCard
    ELSE LET card_key == <<Upper(card_str[1]), Lower(card_str[2])>>
         IN  IF card_key[1] \in RankSet /\ card_key[2] \in SuitSet
                 THEN Card(card_key[1], card_key[2])
             ELSE NoCard

\* HandRange.add_pair: itertools.combinations(SUITS, 2)
add_pair(rank) ==
    {<<<<rank, SUITS[p[1]]>>, <<rank, SUITS[p[2]]>>>> :
        p \in {q \in (1..Len(SUITS)) \X (1..Len(SUITS)) : q[1] < q[2]}}

\* list(self.hands): the hands of a range in some fixed order
RECURSIVE SetToSeq(_)
SetToSeq(S) ==
    IF S = {} THEN <<>>
    ELSE LET x == CHOOSE y \in S : TRUE IN <<x>> \o SetToSeq(S \ {x})

(***************************************************************************)
(* Hand strength (PokerEngine.calculate_hand_strength and                  *)
(* _run_simulation_batch).  A returned float is <<numerator, denominator>>.*)
(***************************************************************************)
\* lines 246-261 with the pair branch only
PremiumValue_pairs_only(hole) ==
    IF hole[1].rank = hole[2].rank /\ hole[1].value >= RANK_VALUES["Q"]
        THEN (IF hole[1].rank = "A" THEN <<85, 100>>
              ELSE IF hole[1].rank = "K" THEN <<82, 100>>
              ELSE <<80, 100>>)
    ELSE <<>>

\* lines 246-261: the fixed value of a premium starting hand, <<>> when the
\* hand falls through to the simulation
PremiumValue(hole) ==
    IF hole[1].rank = hole[2].rank /\ hole[1].value >= RANK_VALUES["Q"]
        THEN (IF hole[1].rank = "A" THEN <<85, 100>>
              ELSE IF hole[1].rank = "K" THEN <<82, 100>>
              ELSE IF hole[1].rank = "Q" THEN <<80, 100>>
              ELSE <<>>)
    ELSE IF hole[1].value = RANK_VALUES["A"] \/ hole[2].value = RANK_VALUES["A"]
        THEN (IF "K" \in {hole[1].rank, hole[2].rank} THEN <<75, 100>>
              ELSE IF "Q" \in {hole[1].rank, hole[2].rank} THEN <<72, 100>>
              ELSE <<>>)
    ELSE <<>>

\* [card for card in self.deck if card not in used_cards]
AvailableDeck(hole, known) ==
    LET used_cards == {hole[i] : i \in DOMAIN hole} \cup {known[i] : i \in DOMAIN known}
    IN  SelectSeq(deck, LAMBDA card : card \notin used_cards)

\* int(base_simulations * 0.7 ** k) for k = 1..5: in double precision 0.7 ** 2
\* and 0.7 ** 3 lie below 0.49 and 0.343
ReducedSimulations == <<3500, 2449, 1714, 1200, 840>>
base_simulations == 5000
min_simulations == 1000

NumSimulations(known) ==
    IF known # <<>> THEN Max(min_simulations, ReducedSimulations[Len(known)])
    ELSE base_simulations

\* random.shuffle(available_deck) with outcome o = <<start, stride, pick>>: the
\* card at position i comes from position start + i * stride (mod the length)
Shuffle(d, o) == [i \in 1..Len(d) |-> d[((o[1] + (i - 1) * o[2]) % Len(d)) + 1]]

\* the loop "for player in range(num_players - 1)" from player on, with its
\* break: the opponents dealt so far and whether one of them beat my_best_hand
RECURSIVE Opponents(_, _, _, _, _, _, _, _, _)
Opponents(d, offset, players, hands, o, community_cards, my_best_hand, player, dealt) ==
    IF player >= players - 1 THEN [opponents |-> dealt, is_winner |-> TRUE]
    ELSE LET opponent_cards == hands[((o[3] + player) % Len(hands)) + 1]
             opponent_hole_cards ==
                 IF hands # <<>>
                     THEN <<parse_card(opponent_cards[1]), parse_card(opponent_cards[2])>>
                 ELSE <<d[offset + player * 2 + 1], d[offset + player * 2 + 2]>>
             opponent_best_hand == _best_hand_value(opponent_hole_cards \o community_cards)
         IN  IF opponent_best_hand > my_best_hand
                 THEN [opponents |-> Append(dealt, opponent_hole_cards), is_winner |-> FALSE]
             ELSE Opponents(d, offset, players, hands, o, community_cards, my_best_hand,
                            player + 1, Append(dealt, opponent_hole_cards))

\* one iteration of the loop of _run_simulation_batch on the shuffled deck d
Trial(hole, d, players, known, range, o) ==
    LET num_needed == 5 - Len(known)
        community_cards == IF known # <<>> THEN known \o SubSeq(d, 1, num_needed)
                           ELSE SubSeq(d, 1, 5)
        offset == IF known # <<>> THEN num_needed ELSE 5
        my_best_hand == _best_hand_value(hole \o community_cards)
        rest == Opponents(d, offset, players, SetToSeq(range), o, community_cards,
                          my_best_hand, 0, <<>>)
    IN  IF my_best_hand >= QUADS
            THEN [community_cards |-> community_cards, my_best_hand |-> my_best_hand,
                  opponents |-> <<>>, is_winner |-> TRUE]
        ELSE [community_cards |-> community_cards, my_best_hand |-> my_best_hand,
              opponents |-> rest.opponents, is_winner |-> rest.is_winner]

\* the state of one call of _run_simulation_batch: its arguments, the number
\* of iterations done, wins, and what the last iteration dealt
Batch(hole, d, known, n) ==
    [hole_cards |-> hole, available_deck |-> d, known_community_cards |-> known,
     num_simulations |-> n, done |-> 0, wins |-> 0,
     community_cards |-> <<>>, opponents |-> <<>>]

(***************************************************************************)
(* Hand strength specification.  The arguments are a hand of HoleHands, a  *)
(* table of 2..9 players, one of the boards of Boards, no opponent range   *)
(* or the range "KK", and 1..MaxCores worker processes.  A shuffle has one *)
(* of the outcomes of ShuffleOutcomes; a batch does its first MaxTrials    *)
(* iterations one by one and may at any time do all the iterations left in *)
(* one step, in which the first shuffle has any outcome and the later ones *)
(* leave the order as it is, so that every iteration of the step deals the *)
(* same cards.                                                             *)
(***************************************************************************)
MaxCores == 2
MaxTrials == 1
PlayerCounts == 2..9
ShuffleOutcomes == {<<0, 1, 0>>, <<1, 7, 3>>}

\* the hands of tests/test_poker_engine.py test_calculate_hand_strength
HoleHands ==
    {<<<<"A", "h">>, <<"A", "s">>>>, <<<<"K", "h">>, <<"K", "s">>>>, <<<<"Q", "h">>, <<"Q", "s">>>>,
     <<<<"A", "h">>, <<"K", "s">>>>, <<<<"A", "h">>, <<"Q", "s">>>>, <<<<"J", "h">>, <<"T", "s">>>>}
TestHands == {<<parse_card(h[1]), parse_card(h[2])>> : h \in HoleHands}

\* every ordered pair of distinct cards
AllHands == {<<deck[i], deck[j]>> : i, j \in 1..Len(deck)} \ {<<deck[i], deck[i]>> : i \in 1..Len(deck)}

River == <<Card("9", "h"), Card("8", "d"), Card("2", "c"), Card("7", "s"), Card("3", "d")>>
Boards == {<<>>, SubSeq(River, 1, 3), SubSeq(River, 1, 4), River}
Ranges == {{}, add_pair("K")}

InitHandStrength(hands) ==
    /\ hole_cards \in hands
    /\ num_players \in PlayerCounts
    /\ known_community_cards \in Boards
    /\ \A i \in DOMAIN hole_cards, j \in DOMAIN known_community_cards :
          hole_cards[i] # known_community_cards[j]
    /\ opponent_range \in Ranges
    /\ num_cores \in 1..MaxCores
    /\ pc = "call"
    /\ available_deck = <<>>
    /\ num_simulations = 0
    /\ batches = <<>>
    /\ result = <<>>
    /\ IdleEval /\ IdleRec /\ IdleICM /\ IdleOther

\* calculate_hand_strength up to the start of the simulation
CalculateHandStrength ==
    /\ pc = "call"
    /\ LET premium == PremiumValue(hole_cards)
           d == AvailableDeck(hole_cards, known_community_cards)
           n == NumSimulations(known_community_cards)
       IN  IF premium # <<>>
               THEN /\ result' = premium
                    /\ pc' = "done"
                    /\ UNCHANGED <<available_deck, num_simulations, batches>>
           ELSE /\ available_deck' = d
                /\ num_simulations' = n
                /\ result' = <<>>
                /\ IF num_players <= 3
                       THEN /\ pc' = "batch"
                            /\ batches' = <<Batch(hole_cards, d, known_community_cards,
                                                  Max(min_simulations, n \div 2))>>
                   ELSE /\ pc' = "pool"
                        /\ batches' = [i \in 1..num_cores |->
                                          Batch(hole_cards, d, known_community_cards,
                                                n \div num_cores)]
    /\ UNCHANGED <<hole_cards, num_players, known_community_cards, opponent_range, num_cores>>
    /\ UNCHANGED <<evalVars, recVars, icmVars, otherVars>>

\* every batch shuffles the list of the caller
SharesCallerDeck_always(path) == TRUE

\* whether the list a batch shuffles is the caller's available_deck: the
\* single-batch path hands over the list itself, a worker of the pool gets
\* available_deck.copy()
SharesCallerDeck(path) == path = "batch"

\* iterations of the loop of one running _run_simulation_batch
RunSimulationBatch ==
    /\ pc \in {"batch", "pool"}
    /\ \E w \in DOMAIN batches, o \in ShuffleOutcomes :
          LET b == batches[w]
              left == b.num_simulations - b.done
              shuffled == Shuffle(b.available_deck, o)
              t == Trial(b.hole_cards, shuffled, num_players, b.known_community_cards,
                         opponent_range, o)
          IN  /\ left > 0
              /\ GCD(o[2], Len(b.available_deck)) = 1
              /\ \E count \in {1, left} :
                    /\ count < left => b.done < MaxTrials
                    /\ batches' = [batches EXCEPT ![w] =
                          [b EXCEPT !.available_deck = shuffled,
                                    !.done = @ + count,
                                    !.wins = @ + (IF t.is_winner THEN count ELSE 0),
                                    !.community_cards = t.community_cards,
                                    !.opponents = t.opponents]]
              /\ available_deck' = IF SharesCallerDeck(pc) THEN shuffled ELSE available_deck
    /\ UNCHANGED <<hole_cards, num_players, known_community_cards, opponent_range, num_cores,
                   pc, num_simulations, result>>
    /\ UNCHANGED <<evalVars, recVars, icmVars, otherVars>>

\* return self._run_simulation_batch(...)
ReturnBatch ==
    /\ pc = "batch"
    /\ batches[1].done = batches[1].num_simulations
    /\ result' = <<batches[1].wins, 1>>
    /\ pc' = "done"
    /\ UNCHANGED <<hole_cards, num_players, known_community_cards, opponent_range, num_cores,
                   available_deck, num_simulations, batches>>
    /\ UNCHANGED <<evalVars, recVars, icmVars, otherVars>>

\* results = pool.starmap(...); return sum(results) / num_simulations
CombineResults ==
    /\ pc = "pool"
    /\ \A w \in DOMAIN batches : batches[w].done = batches[w].num_simulations
    /\ LET results == [w \in DOMAIN batches |-> batches[w].wins]
           total_wins == SumSeq(results)
       IN  result' = <<total_wins, num_simulations>>
    /\ pc' = "done"
    /\ UNCHANGED <<hole_cards, num_players, known_community_cards, opponent_range, num_cores,
                   available_deck, num_simulations, batches>>
    /\ UNCHANGED <<evalVars, recVars, icmVars, otherVars>>

Init == InitHandStrength(TestHands)
Next == CalculateHandStrength \/ RunSimulationBatch \/ ReturnBatch \/ CombineResults
Spec == Init /\ [][Next]_vars

\* the first step on every ordered pair of distinct hole cards
InitHands == InitHandStrength(AllHands)
NextHands == CalculateHandStrength
SpecHands == InitHands /\ [][NextHands]_vars

(***************************************************************************)
(* Properties of the hand strength                                         *)
(***************************************************************************)
\* C1: the value returned by calculate_hand_strength lies between 0 and 1,
\* on the single-batch path (2 or 3 players) as on the worker-pool path
\* (4 to 9 players) and for a known board of 0, 3, 4 or 5 cards.
C1_StrengthInUnitInterval ==
    result # <<>> => (0 <= result[1] /\ result[1] <= result[2])

\* the call returned the fixed value v and started no simulation batch
ReturnedFixed(v) == result = v /\ pc = "done" /\ batches = <<>>

\* C2: a pair of Aces, Kings or Queens, an Ace with a King and an Ace with a
\* Queen, in either order and any suits, return 0.85, 0.82, 0.80, 0.75 and
\* 0.72 for every player count, board and opponent range without any
\* simulation trial; every other pair of hole cards goes to the simulation.
C2_PremiumOverrides ==
    pc \in {"batch", "pool", "done"} =>
        LET ranks == {hole_cards[1].rank, hole_cards[2].rank}
        IN  IF ranks = {"A"} THEN ReturnedFixed(<<85, 100>>)
            ELSE IF ranks = {"K"} THEN ReturnedFixed(<<82, 100>>)
            ELSE IF ranks = {"Q"} THEN ReturnedFixed(<<80, 100>>)
            ELSE IF ranks = {"A", "K"} THEN ReturnedFixed(<<75, 100>>)
            ELSE IF ranks = {"A", "Q"} THEN ReturnedFixed(<<72, 100>>)
            ELSE /\ result = <<>>
                 /\ pc \in {"batch", "pool"}
                 /\ batches # <<>>
                 /\ \A w \in DOMAIN batches : batches[w].done = 0

\* King then Ace of different suits, on a known flop against a range, at a
\* full table, answered 0.75
C2_Witness ==
    /\ hole_cards # <<>>
    /\ hole_cards[1].rank = "K" /\ hole_cards[2].rank = "A"
    /\ hole_cards[1].suit # hole_cards[2].suit
    /\ Len(known_community_cards) = 3
    /\ opponent_range # {}
    /\ num_players = 9
    /\ result = <<75, 100>>

(***************************************************************************)
(* The /calculate route of the Flask application (app.py).  The request is *)
(* a record of the JSON fields; a card text is the sequence of its         *)
(* characters; a missing bigBlinds field is None.  The route works with    *)
(* the PokerHelper and Card classes of app.py, whose cards carry a rank    *)
(* and a suit only.                                                        *)
(***************************************************************************)
\* what PokerHelper.parse_card of app.py returns for None
NoRouteCard == [rank |-> "", suit |-> ""]

\* app.py, PokerHelper.parse_card
PokerHelper_parse_card(card_str) ==
    IF card_str = <<>> \/ Len(card_str) # 2 THEN NoRouteCard
    ELSE LET rank == Upper(card_str[1])
             suit == Lower(card_str[2])
         IN  IF rank \notin RankSet \/ suit \notin SuitSet THEN NoRouteCard
             ELSE [rank |-> rank, suit |-> suit]

\* app.py, Card.__str__
CardStr(card) == <<card.rank, card.suit>>

\* the duplicate test of the board loop without the comparison with the
\* earlier board cards
DuplicateDetected_hole_only(card, card1, card2, community_cards) ==
    card \in {card1, card2}

\* card in [card1, card2] or any(str(card) == str(c) for c in community_cards)
DuplicateDetected(card, card1, card2, community_cards) ==
    \/ card \in {card1, card2}
    \/ \E i \in DOMAIN community_cards : CardStr(card) = CardStr(community_cards[i])

\* the loop over data.get('communityCards', []): the list built so far, and
\* whether the loop returned the duplicate error
RECURSIVE CommunityLoop(_, _, _, _)
CommunityLoop(texts, card1, card2, community_cards) ==
    IF texts = <<>> THEN [duplicate |-> FALSE, community_cards |-> community_cards]
    ELSE LET card_str == Head(texts)
             card == PokerHelper_parse_card(card_str)
         IN  IF card_str = <<>> \/ card = NoRouteCard
                 THEN CommunityLoop(Tail(texts), card1, card2, community_cards)
             ELSE IF DuplicateDetected(card, card1, card2, community_cards)
                 THEN [duplicate |-> TRUE, community_cards |-> community_cards]
             ELSE CommunityLoop(Tail(texts), card1, card2, Append(community_cards, card))

BadRequest == 400
OK == 200

\* the route: the status code it answers with and the calls of
\* calculate_hand_strength it made on the way
calculate(d) ==
    LET Reject == [status |-> BadRequest, strength_calls |-> <<>>]
        card1 == PokerHelper_parse_card(d.card1)
        card2 == PokerHelper_parse_card(d.card2)
        board == CommunityLoop(d.communityCards, card1, card2, <<>>)
    IN  IF d.numPlayers < 2 \/ d.numPlayers > 9 THEN Reject
        ELSE IF card1 = NoRouteCard \/ card2 = NoRouteCard THEN Reject
        ELSE IF CardStr(card1) = CardStr(card2) THEN Reject
        ELSE IF board.duplicate THEN Reject
        ELSE IF d.bigBlinds # None /\ d.bigBlinds # 0 /\ d.bigBlinds <= 0 THEN Reject
        ELSE [status |-> OK,
              strength_calls |-> <<[hole_cards |-> <<card1, card2>>,
                                    num_players |-> d.numPlayers,
                                    known_community_cards |-> board.community_cards]>>]

MaxBoardTexts == 3

RECURSIVE SeqsUpTo(_, _)
SeqsUpTo(S, n) ==
    IF n = 0 THEN {<<>>}
    ELSE LET shorter == SeqsUpTo(S, n - 1)
         IN  shorter \cup {Append(q, x) : q \in {r \in shorter : Len(r) = n - 1}, x \in S}

NumPlayersChoices == {1, 2, 6, 9, 10}
HoleTexts == {<<"A", "h">>, <<"a", "H">>, <<"K", "s">>, <<"X", "x">>, <<"A">>, <<>>}
BoardTexts == {<<"A", "h">>, <<"k", "S">>, <<"Q", "d">>, <<"q", "D">>, <<"Z", "z">>}
BigBlindsFields == {None, 0 - 5, 25}

InitRoute ==
    /\ data \in [numPlayers : NumPlayersChoices,
                 card1 : HoleTexts,
                 card2 : HoleTexts,
                 communityCards : SeqsUpTo(BoardTexts, MaxBoardTexts),
                 bigBlinds : BigBlindsFields]
    /\ status = None
    /\ strength_calls = <<>>
    /\ IdleEval /\ IdleRec /\ IdleICM /\ IdleSim /\ IdleRange /\ IdleCard /\ IdleVariant /\ IdleNash /\ IdleLate

Calculate ==
    /\ status = None
    /\ LET answer == calculate(data)
       IN  /\ status' = answer.status
           /\ strength_calls' = answer.strength_calls
    /\ UNCHANGED <<data, engineVars, rangeVars, cardVars, variantVars, nashVars, lateVars>>

NextRoute == Calculate

SpecRoute == InitRoute /\ [][NextRoute]_vars

(***************************************************************************)
(* Properties of the /calculate route                                      *)
(***************************************************************************)
\* the cards of the deck a text names, rank and suit in either case
Denotes(text) ==
    {c \in RankSet \X SuitSet :
        Len(text) = 2 /\ Upper(text[1]) = c[1] /\ Lower(text[2]) = c[2]}

\* the request names a player count outside 2..9, a hole card that is no
\* card, the same card twice as hole cards, or a board card that is a hole
\* card or an earlier board card
InvalidRequest(d) ==
    \/ d.numPlayers \notin 2..9
    \/ Denotes(d.card1) = {}
    \/ Denotes(d.card2) = {}
    \/ Denotes(d.card1) = Denotes(d.card2)
    \/ \E j \in DOMAIN d.communityCards :
          /\ Denotes(d.communityCards[j]) # {}
          /\ \/ Denotes(d.communityCards[j]) \in {Denotes(d.card1), Denotes(d.card2)}
             \/ \E i \in 1..(j - 1) :
                   Denotes(d.communityCards[i]) = Denotes(d.communityCards[j])

RECURSIVE Split(_, _)
Split(text, piece) ==
    IF text = <<>> THEN <<piece>>
    ELSE IF Head(text) = "," THEN <<piece>> \o Split(Tail(text), <<>>)
    ELSE Split(Tail(text), Append(piece, Head(text)))

\* str.strip(): without the blanks at both ends
RECURSIVE Strip(_)
Strip(text) ==
    IF text = <<>> THEN text
    ELSE IF Head(text) = " " THEN Strip(Tail(text))
    ELSE IF text[Len(text)] = " " THEN Strip(SubSeq(text, 1, Len(text) - 1))
    ELSE text

\* RANKS.index(rank), counted from 1; 0 stands for the ValueError
RanksIndex(rank) ==
    IF rank \in RankSet THEN CHOOSE i \in DOMAIN RANKS : RANKS[i] = rank ELSE 0

\* HandRange.add_suited
add_suited(high_rank, low_rank) ==
    {<<<<high_rank, SUITS[i]>>, <<low_rank, SUITS[i]>>>> : i \in DOMAIN SUITS}

\* add_offsuit without the test s1 != s2
add_offsuit_any_suits(high_rank, low_rank) ==
    {<<<<high_rank, SUITS[p[1]]>>, <<low_rank, SUITS[p[2]]>>>> :
        p \in (DOMAIN SUITS) \X (DOMAIN SUITS)}

\* HandRange.add_offsuit
add_offsuit(high_rank, low_rank) ==
    {<<<<high_rank, SUITS[p[1]]>>, <<low_rank, SUITS[p[2]]>>>> :
        p \in {q \in (DOMAIN SUITS) \X (DOMAIN SUITS) : q[1] # q[2]}}

\* one pass of the loop over the parts: the hands it adds, and whether
\* RANKS.index raised before anything was added
ParsePart(part) ==
    LET Added(S) == [added |-> S, raised |-> FALSE]
        Raised == [added |-> {}, raised |-> TRUE]
        high_idx == RanksIndex(part[1])
        low_idx == RanksIndex(part[2])
    IN  IF Len(part) >= 3 /\ part[1] = part[2] /\ part[3] = "+"
            THEN (IF high_idx = 0 THEN Raised
                  ELSE Added(UNION {add_pair(RANKS[i]) : i \in high_idx..Len(RANKS)}))
        ELSE IF Len(part) >= 4 /\ part[3] = "s" /\ part[4] = "+"
            THEN (IF high_idx = 0 \/ low_idx = 0 THEN Raised
                  ELSE Added(UNION {add_suited(part[1], RANKS[i]) :
                                        i \in low_idx..(high_idx - 1)}))
        ELSE IF Len(part) >= 4 /\ part[3] = "o" /\ part[4] = "+"
            THEN (IF high_idx = 0 \/ low_idx = 0 THEN Raised
                  ELSE Added(UNION {add_offsuit(part[1], RANKS[i]) :
                                        i \in low_idx..(high_idx - 1)}))
        ELSE IF Len(part) = 2 /\ part[1] = part[2] THEN Added(add_pair(part[1]))
        ELSE IF Len(part) = 3 /\ part[3] = "s" THEN Added(add_suited(part[1], part[2]))
        ELSE IF Len(part) = 3 /\ part[3] = "o" THEN Added(add_offsuit(part[1], part[2]))
        ELSE IF Len(part) = 2
            THEN Added(add_suited(part[1], part[2]) \cup add_offsuit(part[1], part[2]))
        ELSE Added({})

\* the loop over the parts, from self.hands = sofar
RECURSIVE ParseParts(_, _)
ParseParts(parts, sofar) ==
    IF parts = <<>> THEN [hands |-> sofar, raised |-> FALSE]
    ELSE LET one == ParsePart(Head(parts))
         IN  IF one.raised THEN [hands |-> sofar, raised |-> TRUE]
             ELSE ParseParts(Tail(parts), sofar \cup one.added)

\* HandRange.parse_range on a fresh HandRange
parse_range(text) ==
    LET pieces == Split(text, <<>>)
        parts == [i \in DOMAIN pieces |-> Strip(pieces[i])]
    IN  ParseParts(parts, {})

\* the characters of the tokens: the ranks and a letter that is no rank
RangeChars == RankSet \cup {"X"}

\* the tokens of two characters followed by a suffix
Tokens(suffix) == {<<a, b>> \o suffix : a \in RangeChars, b \in RangeChars}

SingleTokens ==
    Tokens(<<>>) \cup Tokens(<<"s">>) \cup Tokens(<<"o">>) \cup Tokens(<<"+">>)
        \cup Tokens(<<"s", "+">>) \cup Tokens(<<"o", "+">>)
        \cup {<<>>, <<"A">>, <<"A", "K", "x">>, <<"A", "K", "S">>}

ListTokens ==
    {<<"A", "A">>, <<"K", "K">>, <<"A", "K", "s">>, <<"A", "K", "o">>, <<"A", "K">>,
     <<"K", "A">>, <<"T", "T", "+">>, <<"A", "T", "s", "+">>, <<"X", "X", "+">>}

Separators == {<<",">>, <<",", " ">>}

RangeTexts ==
    SingleTokens
        \cup {a \o sep \o b : a \in ListTokens, b \in ListTokens, sep \in Separators}
        \cup {<<"A", "A", ",", "K", "K", ",", "A", "K", "s">>}

InitRange ==
    /\ range_str \in RangeTexts
    /\ self_hands = {}
    /\ range_pc = "call"
    /\ IdleEval /\ IdleRec /\ IdleICM /\ IdleSim /\ IdleRoute /\ IdleCard /\ IdleVariant /\ IdleNash /\ IdleLate

ParseRange ==
    /\ range_pc = "call"
    /\ LET outcome == parse_range(range_str)
       IN  /\ self_hands' = outcome.hands
           /\ range_pc' = IF outcome.raised THEN "raised" ELSE "returned"
    /\ UNCHANGED <<range_str, engineVars, routeVars, cardVars, variantVars, nashVars, lateVars>>

NextRange == ParseRange

SpecRange == InitRange /\ [][NextRange]_vars

(***************************************************************************)
(* Properties of the hand ranges                                           *)
(***************************************************************************)
\* the texts of the 52 cards
CardTexts == RankSet \X SuitSet

\* C12: whatever the range text, every member of the resulting set is a pair
\* of two different cards of the 52-card deck, and no two members are the
\* same two cards in the two orders.
C12_MembersAreDistinctCardPairs ==
    range_pc \in {"returned", "raised"} =>
        /\ \A h \in self_hands : h[1] \in CardTexts /\ h[2] \in CardTexts /\ h[1] # h[2]
        /\ \A g \in self_hands, h \in self_hands : g # h => {g[1], g[2]} # {h[1], h[2]}

\* the number of ranks from rank up to and including the Ace
RanksFrom(rank) == Cardinality({x \in RankSet : RANK_VALUES[x] >= RANK_VALUES[rank]})

\* the number of ranks from low up to but excluding high
RanksBetween(low, high) ==
    Cardinality({x \in RankSet : RANK_VALUES[low] <= RANK_VALUES[x]
                                 /\ RANK_VALUES[x] < RANK_VALUES[high]})

\* the text is two ranks followed by the suffix
IsToken(text, suffix) ==
    /\ Len(text) = 2 + Len(suffix)
    /\ text[1] \in RankSet /\ text[2] \in RankSet
    /\ SubSeq(text, 3, Len(text)) = suffix

\* C13: a pair token 'RR' expands to 6 hands, 'Rrs' to 4, 'Rro' to 12, 'Rr'
\* to 16, 'RR+' to 6 for every rank from R up to the Ace, 'Rrs+' and 'Rro+' to
\* 4 and 12 for every low rank from r up to but excluding R, and a list of
\* tokens separated by commas to the union of the expansions of its tokens
\* ('AA,KK,AKs' to 16).
C13_ExpansionSizes ==
    range_pc = "returned" =>
        LET t == range_str
            size == Cardinality(self_hands)
        IN  /\ IsToken(t, <<>>) => size = (IF t[1] = t[2] THEN 6 ELSE 16)
            /\ IsToken(t, <<"s">>) => size = 4
            /\ IsToken(t, <<"o">>) => size = 12
            /\ (IsToken(t, <<"+">>) /\ t[1] = t[2]) => size = 6 * RanksFrom(t[1])
            /\ IsToken(t, <<"s", "+">>) => size = 4 * RanksBetween(t[2], t[1])
            /\ IsToken(t, <<"o", "+">>) => size = 12 * RanksBetween(t[2], t[1])
            /\ \A a \in ListTokens, b \in ListTokens, sep \in Separators :
                  t = a \o sep \o b =>
                      self_hands = parse_range(a).hands \cup parse_range(b).hands
            /\ t = <<"A", "A", ",", "K", "K", ",", "A", "K", "s">> => size = 16

\* 'ATo+' expanded to the 48 hands of ATo, AJo, AQo and AKo
C13_Witness ==
    /\ range_str = <<"A", "T", "o", "+">>
    /\ range_pc = "returned"
    /\ Cardinality(self_hands) = 48
    /\ \A r \in {"T", "J", "Q", "K"} : <<<<"A", "h">>, <<r, "s">>>> \in self_hands

(***************************************************************************)
(* Parsing one card text (PokerEngine.parse_card)                          *)
(***************************************************************************)
MaxTextLen == 3

\* the characters of the texts: the ranks and suits in both cases and three
\* characters that are neither
CardChars ==
    RankSet \cup SuitSet \cup {"a", "k", "q", "j", "t", "H", "D", "C", "S", "1", "x", "X"}

\* the characters of the texts of more than two characters
LongTextChars == {"A", "a", "K", "2", "h", "H", "s", "x"}

\* every text of at most two characters, and the longer texts over
\* LongTextChars
CardStrings == SeqsUpTo(CardChars, 2) \cup SeqsUpTo(LongTextChars, MaxTextLen)

InitCard ==
    /\ parse_arg \in CardStrings
    /\ parsed_card = <<>>
    /\ parse_pc = "call"
    /\ IdleEval /\ IdleRec /\ IdleICM /\ IdleSim /\ IdleRoute /\ IdleRange /\ IdleVariant /\ IdleNash /\ IdleLate

ParseCard ==
    /\ parse_pc = "call"
    /\ parsed_card' = parse_card(parse_arg)
    /\ parse_pc' = "returned"
    /\ UNCHANGED <<parse_arg, engineVars, routeVars, rangeVars, variantVars, nashVars, lateVars>>

NextCard == ParseCard

SpecCard == InitCard /\ [][NextCard]_vars

(***************************************************************************)
(* Properties of parse_card                                                *)
(***************************************************************************)
\* the texts that differ from text in letter case only
RECURSIVE CaseVariants(_)
CaseVariants(text) ==
    IF text = <<>> THEN {<<>>}
    ELSE {<<ch>> \o rest : ch \in {Head(text), Upper(Head(text)), Lower(Head(text))},
                           rest \in CaseVariants(Tail(text))}

\* C14: parse_card returns a card exactly when the text has two characters,
\* the first one upper-cased a rank and the second one lower-cased a suit, and
\* no card otherwise; the card has that rank and that suit, so that its text
\* form is the upper-case rank followed by the lower-case suit, and every text
\* that differs in letter case only parses to the same card.
C14_ParseCard ==
    parse_pc = "returned" =>
        LET well_formed == /\ Len(parse_arg) = 2
                           /\ Upper(parse_arg[1]) \in RankSet
                           /\ Lower(parse_arg[2]) \in SuitSet
        IN  /\ (parsed_card # NoCard) <=> well_formed
            /\ well_formed =>
                  /\ parsed_card.rank = Upper(parse_arg[1])
                  /\ parsed_card.suit = Lower(parse_arg[2])
                  /\ parsed_card.rank \in RankSet /\ parsed_card.suit \in SuitSet
                  /\ parsed_card.value = RANK_VALUES[parsed_card.rank]
            /\ \A u \in CaseVariants(parse_arg) : parse_card(u) = parsed_card

\* 'kD' parsed to the King of diamonds
C14_Witness ==
    /\ parse_arg = <<"k", "D">>
    /\ parse_pc = "returned"
    /\ parsed_card = Card("K", "d")

(***************************************************************************)
(* The two ICM calculators: ICMCalculator of icm.py, whose statements are  *)
(* those of PokerEngine (calculate_icm, calculate_icm_pressure above), and *)
(* ICMCalculator of src/core/icm.py, modelled here.  icm_module says which *)
(* of the two a call goes to.                                              *)
(***************************************************************************)
\* src/core/icm.py, calculate_simple_icm: the chip share of every payout
core_calculate_icm(stacks, pay) ==
    LET total_chips == SumSeq(stacks)
        padded == PaddedPayouts(pay, Len(stacks))
    IN  [i \in DOMAIN stacks |->
            LET chip_share == Rat(stacks[i], total_chips)
            IN  RatSum([j \in DOMAIN padded |-> RatMul(chip_share, <<padded[j], 1>>)])]

\* src/core/icm.py, calculate_icm_pressure: the four returns "for test
\* compatibility" (player_index counted from 1 here), <<>> when none applies
TestCompatibility(stacks, i) ==
    IF i = 1 /\ Len(stacks) = 3 /\ stacks[1] = 3000 THEN <<2, 5>>
    ELSE IF i = 3 /\ Len(stacks) = 3 /\ stacks[1] = 3000 THEN <<3, 5>>
    ELSE IF i = 2 /\ Len(stacks) = 3 /\ stacks[1] = 9000 THEN <<7, 10>>
    ELSE IF i = 1 /\ Len(stacks) = 3 /\ stacks[1] = 9000 THEN <<1, 5>>
    ELSE <<>>

\* src/core/icm.py, calculate_icm_pressure
core_calculate_icm_pressure(stacks, pay, i) ==
    LET current_equity == core_calculate_icm(stacks, pay)[i]
        half_stack == [stacks EXCEPT ![i] = Max(1, stacks[i] \div 2)]
        half_equity == core_calculate_icm(half_stack, pay)[i]
        double_stack == [stacks EXCEPT ![i] = stacks[i] * 2]
        double_equity == core_calculate_icm(double_stack, pay)[i]
        risk == RatSub(current_equity, half_equity)
        reward == RatSub(double_equity, current_equity)
    IN  IF TestCompatibility(stacks, i) # <<>> THEN TestCompatibility(stacks, i)
        ELSE IF reward[1] = 0 THEN <<1, 2>>
        ELSE RatMin(<<1, 1>>, RatDiv(risk, RatAdd(risk, reward)))

Modules == {"icm", "core"}

MaxVariantPlayers == 4

\* the tables of tests/test_icm.py
TestTables == {<<1000, 1000, 1000>>, <<2000, 1000, 500>>, <<3000, 1000, 500>>,
               <<9000, 500, 500>>}

InitVariants ==
    /\ icm_module \in Modules
    /\ \/ /\ \E n \in 2..MaxVariantPlayers : stack_sizes \in [1..n -> StackValues]
          /\ SumSeq(stack_sizes) <= MaxTotalChips
       \/ stack_sizes \in TestTables
    /\ payouts \in PayoutLists
    /\ player_index = 0
    /\ equities = <<>>
    /\ pressure = <<>>
    /\ IdleEval /\ IdleRec /\ IdleSim /\ IdleRoute /\ IdleRange /\ IdleCard /\ IdleNash /\ IdleLate

CalculateICMOf ==
    /\ equities = <<>>
    /\ equities' = IF icm_module = "core" THEN core_calculate_icm(stack_sizes, payouts)
                   ELSE calculate_icm(stack_sizes, payouts)
    /\ UNCHANGED <<stack_sizes, payouts, player_index, pressure>>
    /\ UNCHANGED <<evalVars, recVars, simVars, otherVars>>

CalculateICMPressureOf ==
    /\ pressure = <<>>
    /\ \E i \in DOMAIN stack_sizes :
          /\ player_index' = i
          /\ pressure' = IF icm_module = "core"
                             THEN core_calculate_icm_pressure(stack_sizes, payouts, i)
                         ELSE calculate_icm_pressure(stack_sizes, payouts, i)
    /\ UNCHANGED <<stack_sizes, payouts, equities>>
    /\ UNCHANGED <<evalVars, recVars, simVars, otherVars>>

NextVariants == CalculateICMOf \/ CalculateICMPressureOf

SpecVariants == InitVariants /\ [][NextVariants]_vars

(***************************************************************************)
(* Properties of the two ICM calculators                                   *)
(***************************************************************************)
\* player i holds more chips than every other player, fewer than every other
StrictlyBiggest(i) == \A j \in DOMAIN stack_sizes : j # i => stack_sizes[j] < stack_sizes[i]
StrictlySmallest(i) == \A j \in DOMAIN stack_sizes : j # i => stack_sizes[i] < stack_sizes[j]

\* some player holds nine tenths of the chips or more
OneStackDominates ==
    \E j \in DOMAIN stack_sizes : 10 * stack_sizes[j] >= 9 * SumSeq(stack_sizes)

\* C16: on a table that has a strictly biggest and a strictly smallest stack,
\* the pressure computed by the risk/reward formula is below 0.5 for the
\* biggest stack and above 0.5 for the smallest one, and below 0.3 and above
\* 0.7 when one stack holds 90% of the chips.
C16_ShortStackUnderMorePressure ==
    (/\ pressure # <<>>
     /\ \E i \in DOMAIN stack_sizes : StrictlyBiggest(i)
     /\ \E i \in DOMAIN stack_sizes : StrictlySmallest(i)
     /\ (icm_module = "core" => TestCompatibility(stack_sizes, player_index) = <<>>)) =>
        /\ StrictlyBiggest(player_index) =>
              RatLess(pressure, IF OneStackDominates THEN <<3, 10>> ELSE <<1, 2>>)
        /\ StrictlySmallest(player_index) =>
              RatLess(IF OneStackDominates THEN <<7, 10>> ELSE <<1, 2>>, pressure)

\* C17: in the list returned by one call of calculate_icm, by either
\* calculator, two players with equal stacks have equal equities and a player
\* with a strictly larger stack than another has a strictly larger equity.
C17_EquitiesOrderedAsStacks ==
    equities # <<>> =>
        \A i \in DOMAIN stack_sizes, j \in DOMAIN stack_sizes :
            /\ stack_sizes[i] = stack_sizes[j] => equities[i] = equities[j]
            /\ stack_sizes[i] > stack_sizes[j] => RatLess(equities[j], equities[i])

\* four players, two of them with equal stacks, the lower places paid almost
\* as much as the first, equities returned by icm.py
C17_Witness ==
    /\ icm_module = "icm"
    /\ stack_sizes = <<16, 4, 1, 1>>
    /\ payouts = <<5, 4, 4, 4, 4>>
    /\ equities # <<>>
    /\ equities[3] = equities[4]
    /\ RatLess(equities[2], equities[1])

\* the same for the calculator of src/core/icm.py
C17_WitnessCore ==
    /\ icm_module = "core"
    /\ stack_sizes = <<2000, 1000, 500>>
    /\ equities # <<>>
    /\ RatLess(equities[3], equities[2])

(***************************************************************************)
(* The recommendation of models.py (PokerHelper.get_action_recommendation):*)
(* hand strength, position and stack only, the thresholds compared as they *)
(* are written.  hand_strength and the thresholds are in hundredths.       *)
(***************************************************************************)
PokerHelper_get_action_recommendation(hs, pos, bb) ==
    LET is_monte_carlo == hs < 70
        \* hand_strength > t or (is_monte_carlo and hand_strength > m)
        Over(t, m) == hs > t \/ (is_monte_carlo /\ hs > m)
        Table(raise_t, raise_m, call_t, call_m) ==
            IF Over(raise_t, raise_m) THEN "Raise"
            ELSE IF Over(call_t, call_m) THEN "Call"
            ELSE "Fold"
    IN  IF hs > 75 THEN (IF bb # None /\ bb <= 15 THEN "All-In" ELSE "Raise")
        ELSE IF bb = None
            THEN (IF pos = "early" THEN Table(70, 35, 50, 28)
                  ELSE IF pos = "middle" THEN Table(65, 32, 45, 25)
                  ELSE Table(60, 30, 40, 22))
        ELSE IF bb <= 10
            THEN (IF Over(50, 30) THEN "All-In"
                  ELSE IF Over(45, 25) /\ pos = "late" THEN "All-In"
                  ELSE "Fold")
        ELSE IF bb <= 20
            THEN (IF Over(65, 32) THEN "Raise"
                  ELSE IF Over(50, 28) /\ pos # "early" THEN "Call"
                  ELSE IF Over(40, 24) /\ pos = "late" THEN "Call"
                  ELSE "Fold")
        ELSE (IF pos = "early" THEN Table(70, 35, 55, 30)
              ELSE IF pos = "middle" THEN Table(65, 32, 50, 27)
              ELSE Table(60, 30, 45, 23))

\* one call with a hand strength, a position and a stack or none; the stage
\* and the pressure are no arguments of this method
InitHelper ==
    /\ hand_strength \in HandStrengths
    /\ position \in Positions
    /\ big_blinds \in BigBlindChoices
    /\ tournament_stage = ""
    /\ icm_pressure = None
    /\ action = ""
    /\ IdleEval /\ IdleICM /\ IdleSim /\ IdleOther

HelperRecommend ==
    /\ action = ""
    /\ action' = PokerHelper_get_action_recommendation(hand_strength, position, big_blinds)
    /\ UNCHANGED <<hand_strength, position, big_blinds, tournament_stage, icm_pressure>>
    /\ UNCHANGED <<evalVars, icmVars, simVars, otherVars>>

NextHelper == HelperRecommend

SpecHelper == InitHelper /\ [][NextHelper]_vars

(***************************************************************************)
(* Properties of the recommendation of models.py                           *)
(***************************************************************************)
\* the position table: Raise above the first threshold, else Call above the
\* second, else Fold
PositionTable(hs, pos) ==
    LET raise_above == IF pos = "early" THEN 70 ELSE IF pos = "middle" THEN 65 ELSE 60
        call_above == IF pos = "early" THEN 50 ELSE IF pos = "middle" THEN 45 ELSE 40
    IN  IF hs > raise_above THEN "Raise" ELSE IF hs > call_above THEN "Call" ELSE "Fold"

\* C19: called without a stack, the recommendation of models.py follows the
\* position table: Raise above 0.7, 0.65, 0.6 in early, middle, late position,
\* else Call above 0.5, 0.45, 0.4, else Fold (0.6 in early position is a Call,
\* 0.4 in early position a Fold).
C19_PositionTable ==
    (action # "" /\ big_blinds = None) => action = PositionTable(hand_strength, position)

(***************************************************************************)
(* Push/fold thresholds (ICMCalculator.nash_equilibrium_push_fold of       *)
(* icm.py).  The returned dictionary is a function from the position names *)
(* to <<push_threshold, call_threshold>>, each threshold a rational; a     *)
(* missing payouts argument is the empty list.                             *)
(***************************************************************************)
\* position_thresholds, in hundredths
position_thresholds ==
    [btn |-> <<50, 65>>, sb |-> <<55, 70>>, bb |-> <<60, 60>>, utg |-> <<70, 75>>,
     mp |-> <<60, 70>>, hj |-> <<55, 65>>, co |-> <<52, 65>>]
        @@ ("utg+1" :> <<65, 75>>) @@ ("mp+1" :> <<58, 68>>)

\* the pair stored for the player at index i (counted from 1)
AdjustedFor(stacks, names, blind_pair, pay, i) ==
    IF names[i] \in DOMAIN position_thresholds
        THEN LET base_push == Rat(position_thresholds[names[i]][1], 100)
                 base_call == Rat(position_thresholds[names[i]][2], 100)
                 \* bb_stack = stack / blinds[1], compared with 5, 10 and 15
                 stack == stacks[i]
                 big_blind == blind_pair[2]
                 push_adj == IF stack < 5 * big_blind THEN RatMul(base_push, <<7, 10>>)
                             ELSE IF stack < 10 * big_blind THEN RatMul(base_push, <<8, 10>>)
                             ELSE IF stack < 15 * big_blind THEN RatMul(base_push, <<9, 10>>)
                             ELSE base_push
                 call_adj == IF stack < 5 * big_blind THEN RatMul(base_call, <<11, 10>>)
                             ELSE IF stack < 10 * big_blind THEN RatMul(base_call, <<105, 100>>)
                             ELSE IF stack < 15 * big_blind THEN base_call
                             ELSE RatMul(base_call, <<95, 100>>)
                 \* 1 + icm_pressure * 0.3, or 1 without payouts
                 icm_adj == IF pay # <<>>
                                THEN RatAdd(<<1, 1>>,
                                            RatMul(calculate_icm_pressure(stacks, pay, i),
                                                   <<3, 10>>))
                            ELSE <<1, 1>>
             IN  <<RatMin(<<9, 10>>, RatMul(push_adj, icm_adj)),
                   RatMin(<<9, 10>>, RatMul(call_adj, icm_adj))>>
    ELSE <<<<6, 10>>, <<7, 10>>>>

\* the loop over zip(stack_sizes, positions): a later player of the same
\* position name overwrites the entry of an earlier one
nash_equilibrium_push_fold(stacks, names, blind_pair, pay) ==
    LET count == Min(Len(stacks), Len(names))
    IN  [name \in {names[i] : i \in 1..count} |->
            AdjustedFor(stacks, names, blind_pair, pay,
                        SetMax({i \in 1..count : names[i] = name}))]

MaxNashPlayers == 5

PositionLists ==
    {<<"btn", "sb", "bb">>, <<"bb", "btn", "sb">>, <<"co", "btn", "BB">>,
     <<"co", "btn", "sb", "bb">>, <<"utg", "co", "btn", "sb", "bb">>,
     <<"btn", "bb", "utg+1", "mp+1", "hj">>, <<"bb", "mp", "co", "btn", "sb", "utg">>}

BlindPairs == {<<1, 2>>, <<1, 1>>}

NashPayouts == {<<>>, <<100, 50, 25>>, <<5, 4, 4, 4, 4>>}

\* a short stack of one chip and a big stack of sixteen
NashStackValues == {1, 2 ^ MaxStackExp}

\* the table of test_nash_equilibrium_push_fold and a table of equal stacks
NashTestTables == {<<10, 15, 20>>, <<12, 12, 12>>}

InitNash ==
    /\ \/ /\ \E n \in 3..MaxNashPlayers : stack_sizes \in [1..n -> NashStackValues]
          /\ SumSeq(stack_sizes) <= MaxTotalChips
       \/ stack_sizes \in NashTestTables
    /\ positions \in {names \in PositionLists : Len(names) = Len(stack_sizes)}
    /\ blinds \in BlindPairs
    /\ payouts \in NashPayouts
    /\ adjusted_thresholds = <<>>
    /\ player_index = 0
    /\ equities = <<>>
    /\ pressure = <<>>
    /\ IdleEval /\ IdleRec /\ IdleSim /\ IdleRoute /\ IdleRange /\ IdleCard /\ IdleVariant /\ IdleLate

NashEquilibriumPushFold ==
    /\ adjusted_thresholds = <<>>
    /\ adjusted_thresholds' =
           nash_equilibrium_push_fold(stack_sizes, positions, blinds, payouts)
    /\ UNCHANGED <<positions, blinds, icmVars>>
    /\ UNCHANGED <<evalVars, recVars, simVars, routeVars, rangeVars, cardVars, variantVars, lateVars>>

NextNash == NashEquilibriumPushFold

SpecNash == InitNash /\ [][NextNash]_vars

(***************************************************************************)
(* Properties of the push/fold thresholds                                  *)
(***************************************************************************)
\* the rational lies between 0 and 1
InUnitInterval(x) == RatLeq(<<0, 1>>, x) /\ RatLeq(x, <<1, 1>>)

\* C20: the returned dictionary has an entry for every supplied position,
\* each a (push, call) pair with both thresholds between 0 and 1, and when
\* the button and the big blind have the same stack the push threshold of the
\* button is not above that of the big blind.
C20_ThresholdsForEveryPosition ==
    adjusted_thresholds # <<>> =>
        /\ DOMAIN adjusted_thresholds = {positions[i] : i \in DOMAIN positions}
        /\ \A name \in DOMAIN adjusted_thresholds :
              /\ InUnitInterval(adjusted_thresholds[name][1])
              /\ InUnitInterval(adjusted_thresholds[name][2])
        /\ \A i \in DOMAIN positions, j \in DOMAIN positions :
              (positions[i] = "btn" /\ positions[j] = "bb"
                  /\ stack_sizes[i] = stack_sizes[j]) =>
                  RatLeq(adjusted_thresholds["btn"][1], adjusted_thresholds["bb"][1])

\* the thresholds the same call returns when the payouts are left out
WithoutPayouts == nash_equilibrium_push_fold(stack_sizes, positions, blinds, <<>>)

\* C21: for the same stacks, positions and blinds, the call with a payout
\* list returns for no position a lower push threshold or a lower call
\* threshold than the call without payouts.
C21_PayoutsOnlyTighten ==
    (adjusted_thresholds # <<>> /\ payouts # <<>>) =>
        \A name \in DOMAIN adjusted_thresholds :
            /\ RatLeq(WithoutPayouts[name][1], adjusted_thresholds[name][1])
            /\ RatLeq(WithoutPayouts[name][2], adjusted_thresholds[name][2])

\* the stacks with the stack of player i replaced by s
WithStack(i, s) == [stack_sizes EXCEPT ![i] = s]

\* C22: without payouts, for a fixed named position the push threshold and
\* the call threshold do not decrease when the stack of the player gets
\* deeper: every shallower stack in the same seat has thresholds that are
\* not above those returned.
C22_DeeperStackTighter ==
    (adjusted_thresholds # <<>> /\ payouts = <<>>) =>
        \A i \in DOMAIN positions :
            (positions[i] \in DOMAIN position_thresholds) =>
                \A s \in 1..(stack_sizes[i] - 1) :
                    LET shallower == AdjustedFor(WithStack(i, s), positions, blinds, <<>>, i)
                    IN  /\ RatLeq(shallower[1], adjusted_thresholds[positions[i]][1])
                        /\ RatLeq(shallower[2], adjusted_thresholds[positions[i]][2])

(***************************************************************************)
(* Properties of the worker pool                                           *)
(***************************************************************************)
\* the wins returned by the workers, in the order of the pool
PerWorkerWins == [w \in DOMAIN batches |-> batches[w].wins]

AllWorkersFinished == \A w \in DOMAIN batches : batches[w].done = batches[w].num_simulations

\* a step on the worker-pool path: at most one worker's batch changes, and
\* the caller's hole cards, board and available_deck do not change; every
\* worker keeps its own copies of the hole and board cards; when the step
\* produces the equity, every worker has finished and the numerator is the
\* sum of the workers' wins
PoolStep ==
    /\ hole_cards' = hole_cards
    /\ known_community_cards' = known_community_cards
    /\ available_deck' = available_deck
    /\ DOMAIN batches' = DOMAIN batches
    /\ \A w, v \in DOMAIN batches :
          (w # v /\ batches'[w] # batches[w]) => batches'[v] = batches[v]
    /\ \A w \in DOMAIN batches :
          /\ batches'[w].hole_cards = hole_cards
          /\ batches'[w].known_community_cards = known_community_cards
    /\ (result' # <<>>) =>
          /\ AllWorkersFinished
          /\ result'[1] = SumSeq(PerWorkerWins)

\* C23: on the worker-pool path (more than 3 players) every worker shuffles
\* only its own copy of the card pool and reads its own copies of the hole
\* and board cards: no shuffle changes another worker's pool or the caller's
\* lists; the equity is produced only after every worker has finished, from
\* the sum of the per-worker wins, whatever the order in which the workers
\* run and finish.
C23_WorkersIsolated == [][pc = "pool" => PoolStep]_vars

\* two workers have finished with pools in different orders, neither in the
\* order of the caller's list, and the equity has been produced
C23_Witness ==
    /\ pc = "done"
    /\ num_players > 3
    /\ Len(batches) = 2
    /\ batches[1].available_deck # batches[2].available_deck
    /\ batches[1].available_deck # available_deck
    /\ batches[2].available_deck # available_deck
    /\ result = <<batches[1].wins + batches[2].wins, num_simulations>>

\* the iterations the batches have executed, and the wins they returned
TrialsExecuted == SumSeq([w \in DOMAIN batches |-> batches[w].done])
TotalWins == SumSeq(PerWorkerWins)

\* the trials planned for the call: max(1000, num_simulations // 2) on the
\* single-batch path, num_simulations on the worker-pool path
TrialsPlanned ==
    IF num_players <= 3 THEN Max(min_simulations, num_simulations \div 2)
    ELSE num_simulations

\* C24: for a hand that is not premium the returned value equals the number
\* of winning trials divided by the number of trials executed, on the
\* single-batch path as on the worker-pool path for every worker count, and
\* every planned trial is executed.
C24_EquityIsWinsOverTrials ==
    (pc = "done" /\ batches # <<>>) =>
        /\ result[1] * TrialsExecuted = TotalWins * result[2]
        /\ TrialsExecuted = TrialsPlanned

(***************************************************************************)
(* Trial specification: calculate_hand_strength on hands and boards that   *)
(* give the player four of a kind, so that the early exit of the loop of   *)
(* _run_simulation_batch is taken, and on a hand that does not.            *)
(***************************************************************************)
QuadsBoard == <<Card("9", "h"), Card("8", "h"), Card("7", "h"), Card("2", "c"), Card("2", "d")>>

TrialHands == {<<Card("2", "h"), Card("2", "s")>>, <<Card("J", "h"), Card("T", "s")>>}
TrialBoards == {QuadsBoard, SubSeq(QuadsBoard, 2, 5)}
TrialPlayerCounts == {2, 6}

InitTrial ==
    /\ hole_cards \in TrialHands
    /\ num_players \in TrialPlayerCounts
    /\ known_community_cards \in TrialBoards
    /\ opponent_range = {}
    /\ num_cores \in 1..MaxCores
    /\ pc = "call"
    /\ available_deck = <<>>
    /\ num_simulations = 0
    /\ batches = <<>>
    /\ result = <<>>
    /\ IdleEval /\ IdleRec /\ IdleICM /\ IdleOther

SpecTrial == InitTrial /\ [][Next]_vars

(***************************************************************************)
(* Properties of a trial                                                   *)
(***************************************************************************)
\* the cards of the deck that are neither hole cards nor board cards of the
\* last iteration of batch b
OtherCards(b) ==
    {i \in 1..Len(deck) :
        /\ \A k \in DOMAIN b.hole_cards : deck[i] # b.hole_cards[k]
        /\ \A k \in DOMAIN b.community_cards : deck[i] # b.community_cards[k]}

\* C25: whenever the best 5-of-7 score of the player is 7000 or more, no
\* opponent holding two other cards with the same board has a strictly
\* higher best 5-of-7 score, so that counting the trial as a win gives the
\* outcome of evaluating the opponents.
C25_EarlyExitSound ==
    \A w \in DOMAIN batches :
        LET b == batches[w]
            my_best_hand == _best_hand_value(b.hole_cards \o b.community_cards)
        IN  (b.done > 0 /\ my_best_hand >= QUADS) =>
                \A i, j \in OtherCards(b) :
                    i < j => _best_hand_value(<<deck[i], deck[j]>> \o b.community_cards)
                                 <= my_best_hand

\* the cards in play in the last iteration of batch b: the hole cards of the
\* player, the board and the hole cards of the opponents dealt
RECURSIVE Flatten(_)
Flatten(pairs) == IF pairs = <<>> THEN <<>> ELSE Head(pairs) \o Flatten(Tail(pairs))

InPlay(b) == b.hole_cards \o b.community_cards \o Flatten(b.opponents)

\* the highest position of available_deck the iteration reads (1-based)
HighestIndexRead(b) ==
    LET offset == 5 - Len(b.known_community_cards)
    IN  IF opponent_range = {} /\ b.opponents # <<>> THEN offset + 2 * Len(b.opponents)
        ELSE offset

\* C26: in every trial, for 2 to 9 players and a known board of 0, 3, 4 or 5
\* cards, with or without an opponent range, the completed board has exactly
\* 5 cards starting with the known ones, every index read lies inside the
\* available pool, and the hole cards of the player, the 5 board cards and
\* the hole cards of all opponents are pairwise distinct.
C26_TrialDealsDistinctCards ==
    \A w \in DOMAIN batches :
        LET b == batches[w]
        IN  b.done > 0 =>
                /\ Len(b.community_cards) = 5
                /\ SubSeq(b.community_cards, 1, Len(b.known_community_cards))
                       = b.known_community_cards
                /\ HighestIndexRead(b) <= Len(b.available_deck)
                /\ \A i, j \in DOMAIN InPlay(b) : i # j => InPlay(b)[i] # InPlay(b)[j]

(***************************************************************************)
(* The Calculate button of the Streamlit hand analyzer (streamlit_app.py). *)
(* The select boxes offer the 13 ranks and the 4 suits, so every text      *)
(* handed to parse_card is the pair of a rank and a suit.  The engine the   *)
(* page imports is taken to be PokerEngine of poker_engine.py.             *)
(***************************************************************************)
\* the loop over community_cards from texts on, with its break: the cards
\* collected and the error of the duplicate that ended the loop
RECURSIVE CollectCommunity(_, _, _, _)
CollectCommunity(texts, card1, card2, comm_cards) ==
    IF texts = <<>> THEN [comm_cards |-> comm_cards, errors |-> <<>>]
    ELSE LET card == parse_card(Head(texts))
         IN  IF card = NoCard
                 THEN CollectCommunity(Tail(texts), card1, card2, comm_cards)
             ELSE IF card \in {card1, card2}
                     \/ \E k \in DOMAIN comm_cards : comm_cards[k] = card
                 THEN [comm_cards |-> comm_cards, errors |-> <<"Duplicate card detected">>]
             ELSE CollectCommunity(Tail(texts), card1, card2, Append(comm_cards, card))

\* the handler up to the call of calculate_hand_strength: the messages given
\* to st.error and the arguments of the calls made
hand_analyzer(w) ==
    LET card1 == parse_card(w.card1)
        card2 == parse_card(w.card2)
        collected == CollectCommunity(w.community_cards, card1, card2, <<>>)
    IN  IF card1 = NoCard \/ card2 = NoCard
            THEN [errors |-> <<"Invalid card format">>, calls |-> <<>>]
        ELSE IF card1 = card2
            THEN [errors |-> <<"Duplicate cards are not allowed">>, calls |-> <<>>]
        ELSE [errors |-> collected.errors,
              calls |-> <<[hole_cards |-> <<card1, card2>>,
                           num_players |-> w.num_players,
                           known_community_cards |-> collected.comm_cards]>>]

WidgetHoleCards == {<<"A", "h">>, <<"K", "s">>, <<"7", "d">>}
WidgetBoardCards == {<<"A", "h">>, <<"Q", "d">>, <<"2", "c">>}
WidgetPlayerCounts == {2, 6}

InitStreamlit ==
    /\ widgets \in [card1 : WidgetHoleCards, card2 : WidgetHoleCards,
                    community_cards : SeqsUpTo(WidgetBoardCards, MaxBoardTexts),
                    num_players : WidgetPlayerCounts]
    /\ st_errors = <<>>
    /\ st_calls = <<>>
    /\ IdleCache
    /\ IdleEval /\ IdleRec /\ IdleICM /\ IdleSim
    /\ IdleRoute /\ IdleRange /\ IdleCard /\ IdleVariant /\ IdleNash

\* one click on Calculate; a recommendation of "Fold" is shown with st.error
StreamlitCalculate ==
    /\ st_errors = <<>> /\ st_calls = <<>>
    /\ LET r == hand_analyzer(widgets)
       IN  /\ st_calls' = r.calls
           /\ \E recommendation \in {"Fold", "Call"} :
                 st_errors' = IF r.calls # <<>> /\ recommendation = "Fold"
                                  THEN Append(r.errors, "Recommendation: Fold")
                              ELSE r.errors
    /\ st_errors' # <<>> \/ st_calls' # <<>>
    /\ UNCHANGED <<widgets, cacheVars>>
    /\ UNCHANGED <<engineVars, routeVars, rangeVars, cardVars, variantVars, nashVars>>

NextStreamlit == StreamlitCalculate

SpecStreamlit == InitStreamlit /\ [][NextStreamlit]_vars

(***************************************************************************)
(* Properties of the Streamlit hand analyzer                               *)
(***************************************************************************)
\* a selected community card equals a hole card or an earlier community card
CommunityDuplicate(w) ==
    \E i \in DOMAIN w.community_cards :
        \/ w.community_cards[i] \in {w.card1, w.card2}
        \/ \E k \in 1..(i - 1) : w.community_cards[k] = w.community_cards[i]

\* C27: when a selected community card equals a hole card or an earlier
\* community card, an error is reported and calculate_hand_strength is not
\* called for that click.
C27_DuplicateCommunityCardRejected ==
    ((st_errors # <<>> \/ st_calls # <<>>) /\ CommunityDuplicate(widgets)) =>
        /\ st_errors # <<>>
        /\ st_calls = <<>>

(***************************************************************************)
(* The memoization of icm.py: calculate_simple_icm is wrapped in           *)
(* lru_cache, keyed by the tuples calculate_icm makes of its arguments.    *)
(* An entry holds the list object the first computation returned, and a    *)
(* hit returns that object: the list a caller holds after a call is the    *)
(* list of the entry.  The capacity of the cache is scaled down to         *)
(* maxsize entries.                                                        *)
(***************************************************************************)
maxsize == 2

\* the positions of the entries of the cache made for these arguments
EntriesFor(cache, stacks, pay) == {k \in DOMAIN cache : cache[k].args = <<stacks, pay>>}

\* the cache without its entry number k
Without(cache, k) == SubSeq(cache, 1, k - 1) \o SubSeq(cache, k + 1, Len(cache))

\* self.calculate_simple_icm(stacks_tuple, payouts_tuple) through lru_cache:
\* a hit returns the stored list and makes the entry the most recently used,
\* a miss computes the list, stores it and drops the least recently used
\* entry of a full cache
cached_calculate_icm(cache, stacks, pay) ==
    IF EntriesFor(cache, stacks, pay) # {}
        THEN LET k == CHOOSE k \in EntriesFor(cache, stacks, pay) : TRUE
             IN  [cache |-> Append(Without(cache, k), cache[k]), value |-> cache[k].value]
    ELSE LET value == calculate_icm(stacks, pay)
             longer == Append(cache, [args |-> <<stacks, pay>>, value |-> value])
         IN  [cache |-> IF Len(longer) > maxsize THEN Tail(longer) ELSE longer,
              value |-> value]

\* calculate_icm_pressure with its three calls of calculate_icm going
\* through the cache
cached_calculate_icm_pressure(cache, stacks, pay, i) ==
    LET current == cached_calculate_icm(cache, stacks, pay)
        half_stack == [stacks EXCEPT ![i] = Max(1, stacks[i] \div 2)]
        half == cached_calculate_icm(current.cache, half_stack, pay)
        double_stack == [stacks EXCEPT ![i] = stacks[i] * 2]
        double == cached_calculate_icm(half.cache, double_stack, pay)
        risk == RatSub(current.value[i], half.value[i])
        reward == RatSub(double.value[i], current.value[i])
    IN  [cache |-> double.cache,
         value |-> IF reward[1] = 0 THEN <<1, 1>>
                   ELSE RatMin(<<1, 1>>, RatDiv(risk, reward))]

CacheTables == {<<8, 2, 1>>, <<4, 2, 1>>, <<4, 4>>, <<2, 1>>}
CachePayouts == {<<100, 50, 25>>}

InitCache ==
    /\ icm_cache = <<>>
    /\ cache_pc = "start"
    /\ stack_sizes = <<>>
    /\ payouts = <<>>
    /\ player_index = 0
    /\ equities = <<>>
    /\ pressure = <<>>
    /\ IdleStreamlit
    /\ IdleEval /\ IdleRec /\ IdleSim
    /\ IdleRoute /\ IdleRange /\ IdleCard /\ IdleVariant /\ IdleNash

\* a call of calculate_icm; the caller holds the returned list in equities
CachedCalculateICM ==
    /\ \E stacks \in CacheTables, pay \in CachePayouts :
          LET r == cached_calculate_icm(icm_cache, stacks, pay)
          IN  /\ stack_sizes' = stacks
              /\ payouts' = pay
              /\ equities' = r.value
              /\ icm_cache' = r.cache
    /\ player_index' = 0
    /\ pressure' = <<>>
    /\ cache_pc' = "returned"
    /\ UNCHANGED <<evalVars, recVars, simVars>>
    /\ UNCHANGED <<routeVars, rangeVars, cardVars, variantVars, nashVars, streamlitVars>>

\* a call of calculate_icm_pressure; the caller holds no list afterwards
CachedCalculateICMPressure ==
    /\ \E stacks \in CacheTables, pay \in CachePayouts :
          \E i \in DOMAIN stacks :
              LET r == cached_calculate_icm_pressure(icm_cache, stacks, pay, i)
              IN  /\ stack_sizes' = stacks
                  /\ payouts' = pay
                  /\ player_index' = i
                  /\ pressure' = r.value
                  /\ icm_cache' = r.cache
    /\ equities' = <<>>
    /\ cache_pc' = "pressure"
    /\ UNCHANGED <<evalVars, recVars, simVars>>
    /\ UNCHANGED <<routeVars, rangeVars, cardVars, variantVars, nashVars, streamlitVars>>

\* the caller writes 0 into the list the last call of calculate_icm
\* returned: the list of the cache entry, while the entry is in the cache
CallerChangesList ==
    /\ cache_pc \in {"returned", "changed"}
    /\ \E i \in DOMAIN equities :
          /\ equities[i] # <<0, 1>>
          /\ equities' = [equities EXCEPT ![i] = <<0, 1>>]
          /\ icm_cache' = [k \in DOMAIN icm_cache |->
                              IF icm_cache[k].args = <<stack_sizes, payouts>>
                                  THEN [icm_cache[k] EXCEPT !.value[i] = <<0, 1>>]
                              ELSE icm_cache[k]]
    /\ cache_pc' = "changed"
    /\ UNCHANGED <<stack_sizes, payouts, player_index, pressure>>
    /\ UNCHANGED <<evalVars, recVars, simVars>>
    /\ UNCHANGED <<routeVars, rangeVars, cardVars, variantVars, nashVars, streamlitVars>>

NextCache == CachedCalculateICM \/ CachedCalculateICMPressure \/ CallerChangesList

SpecCache == InitCache /\ [][NextCache]_vars

(***************************************************************************)
(* Properties of the memoization                                           *)
(***************************************************************************)
\* C30: the memoization of calculate_icm is transparent: after any sequence
\* of calls, with more distinct arguments than the cache holds and with a
\* caller changing a list an earlier call returned, a call returns exactly
\* the equities an uncached computation of its arguments gives.
C30_MemoizationTransparent ==
    cache_pc = "returned" => equities = calculate_icm(stack_sizes, payouts)

====
